---- MODULE Spec2Model ----
(***************************************************************************)
(* A model of jdash's asynchronous coordination: the job details panel     *)
(* (internal/details), the console log viewer (internal/console), the      *)
(* console target tracker of the root model (internal/app) and the jobs    *)
(* panel's debounced search (internal/jobs).                               *)
(*                                                                         *)
(* Every panel is a Bubble Tea model: Update(msg) is run to completion on  *)
(* one goroutine, and the commands it returns (fetches, timers) complete   *)
(* later, in any order, as messages.  A command that has been returned and *)
(* whose message has not been processed yet is an element of one of the    *)
(* "in flight" sets below.                                                 *)
(*                                                                         *)
(* An optional value (a Go pointer that may be nil) is the empty sequence  *)
(* Nil or a one-element sequence <<v>>.                                    *)
(***************************************************************************)
EXTENDS Integers, Sequences, FiniteSets, TLC

Nil == <<>>

Some(v) == <<v>>

----------------------------------------------------------------------------
(* Bounds of the model.                                                    *)

\* Largest job-detail request ticket the model allocates.
MaxRequestID == 2

\* Largest action ticket the model allocates.
MaxActionTicket == 2

----------------------------------------------------------------------------
(* The job details panel: src/unnamed/part_022 (details/model.go) and      *)
(* src/unnamed/part_020 (details/messages.go).                             *)

VARIABLES
    selectedJob,    \* Model.selectedJob: Nil or <<job>>
    recentBuilds,   \* Model.recentBuilds: a sequence of build numbers
    parameterDefs,  \* Model.parameterDefs: a sequence of parameter names
    loading,        \* Model.loading
    detailsErr,     \* Model.err # nil
    requestID,      \* Model.requestID
    inFlight,       \* Model.inFlight: Nil or <<[kind, ticket]>>
    feedback,       \* Model.feedback: Nil or <<[ticket, message, isError, src]>>; src names
                    \* the handler that allocated this actionFeedback object
    confirmation,   \* Model.confirmation: Nil or <<kind>>
    actionTicket,   \* Model.actionTicket
    detailFetches,  \* fetchJobDetailsCmd commands in flight
    actionCmds,     \* triggerBuildCmd / abortBuildCmd / triggerBuildWithParamsCmd in flight
    clearTimers,    \* clearActionMessageCmd timers in flight
    modalJob,       \* the job the parameters modal was opened for, Nil when closed
    dMsg            \* the message details.Update processed last

detailsVars ==
    <<selectedJob, recentBuilds, parameterDefs, loading, detailsErr, requestID,
      inFlight, feedback, confirmation, actionTicket, detailFetches, actionCmds,
      clearTimers, modalJob, dMsg>>

\* What the panel shows and decides on: the fields of details.Model.
panelVars ==
    <<selectedJob, recentBuilds, parameterDefs, loading, detailsErr, requestID,
      inFlight, feedback, confirmation, actionTicket>>

JobNames == {"a", "b"}

\* jenkins.Job as the panel reads it: FullName and LastBuild.Building.
JobValues == [name : JobNames, building : BOOLEAN]

\* Builds and parameter definitions a job-detail response can carry.
BuildLists == {<<>>, <<1>>}

ParamLists == {<<>>, <<"p">>}

ActionKindTriggerBuild == "trigger_build"

ActionKindTriggerBuildWithParams == "trigger_build_with_parameters"

ActionKindAbortBuild == "abort_build"

ActionKindRefresh == "refresh"

ActionKindViewLogs == "view_logs"

ActionKindViewParameters == "view_parameters"

ActionKindViewHistory == "view_history"

ActionKindViewConfig == "view_config"

\* The actions that run a request against the server and report an actionResultMsg.
ExecKinds ==
    {ActionKindTriggerBuild, ActionKindTriggerBuildWithParams, ActionKindAbortBuild}

DetailKeys == {"b", "a", "r", "l", "p", "H", "c", "y", "n", "x"}

isBuildRunning(job) == job # Nil /\ job[1].building

hasParameterDefinitions == Len(parameterDefs) > 0

defaultSuccessMessage(kind) ==
    CASE kind \in {ActionKindTriggerBuild, ActionKindTriggerBuildWithParams} -> "build_triggered"
      [] kind = ActionKindAbortBuild -> "abort_sent"
      [] kind = ActionKindRefresh -> "refreshed"
      [] OTHER -> "action_completed"

\* clearActionMessageCmd: no timer for ticket 0.  src tells the timers of two
\* feedbacks with equal ticket numbers apart: it is the handler that set the
\* feedback.
clearActionMessageCmd(ticket, src) ==
    IF ticket = 0 THEN {} ELSE {[ticket |-> ticket, src |-> src]}

\* setFeedbackWithTicket, as the values it leaves in feedback and actionTicket
\* and the timer command it returns.  message is never blank in the callers.
setFeedbackWithTicket(ticket, message, isError, src) ==
    LET t == IF ticket = 0 THEN actionTicket + 1 ELSE ticket
    IN  [feedback |-> Some([ticket |-> t, message |-> message, isError |-> isError,
                            src |-> src]),
         actionTicket |-> IF ticket = 0 THEN actionTicket + 1 ELSE actionTicket,
         cmds |-> clearActionMessageCmd(t, src)]

setFeedback(message, isError) == setFeedbackWithTicket(0, message, isError, "action")

\* The ticket test of the jobDetailsResultMsg case.
IsCurrentRequestLoose(ticket) == ticket <= requestID

IsCurrentRequest(ticket) == ticket = requestID

\* The ticket test of the actionResultMsg case.
MatchesInFlight(ticket) == inFlight # Nil /\ inFlight[1].ticket = ticket

\* handleJobSelected, with resetActionState and startJobDetailsRequest.
JobSelected(job) ==
    /\ requestID < MaxRequestID
    /\ inFlight' = Nil
    /\ feedback' = Nil
    /\ confirmation' = Nil
    /\ selectedJob' = Some(job)
    /\ recentBuilds' = <<>>
    /\ parameterDefs' = <<>>
    /\ loading' = TRUE
    /\ detailsErr' = FALSE
    /\ requestID' = requestID + 1
    /\ detailFetches' = detailFetches \cup {[ticket |-> requestID + 1, job |-> job.name]}
    /\ dMsg' = [type |-> "JobSelectedMsg", job |-> job.name]
    /\ UNCHANGED <<actionTicket, actionCmds, clearTimers, modalJob>>

\* handleJobCleared, with resetActionState.
JobSelectionCleared ==
    /\ loading' = FALSE
    /\ detailsErr' = FALSE
    /\ selectedJob' = Nil
    /\ recentBuilds' = <<>>
    /\ parameterDefs' = <<>>
    /\ inFlight' = Nil
    /\ feedback' = Nil
    /\ confirmation' = Nil
    /\ dMsg' = [type |-> "JobSelectionClearedMsg"]
    /\ UNCHANGED <<requestID, actionTicket, detailFetches, actionCmds, clearTimers, modalJob>>

\* The messages fetchJobDetailsCmd can return for the request f.
DetailResults(f) ==
    {[type |-> "jobDetailsResultMsg", ticket |-> f.ticket, jobFullName |-> f.job,
      err |-> TRUE, details |-> Nil]}
    \cup
    {[type |-> "jobDetailsResultMsg", ticket |-> f.ticket, jobFullName |-> f.job,
      err |-> FALSE,
      details |-> Some([job |-> [name |-> f.job, building |-> b], builds |-> bl, params |-> pl])] :
        b \in BOOLEAN, bl \in BuildLists, pl \in ParamLists}

\* Update, case jobDetailsResultMsg.
JobDetailsResult ==
    \E f \in detailFetches : \E msg \in DetailResults(f) :
        /\ detailFetches' = detailFetches \ {f}
        /\ dMsg' = [type |-> msg.type, ticket |-> msg.ticket, job |-> msg.jobFullName]
        /\ UNCHANGED <<requestID, confirmation, actionCmds, modalJob>>
        /\ IF ~IsCurrentRequest(msg.ticket)
           THEN UNCHANGED <<selectedJob, recentBuilds, parameterDefs, loading, detailsErr,
                            inFlight, feedback, actionTicket, clearTimers>>
           ELSE /\ loading' = FALSE
                /\ detailsErr' = msg.err
                /\ selectedJob' =
                      IF ~msg.err /\ msg.details # Nil THEN Some(msg.details[1].job) ELSE selectedJob
                /\ recentBuilds' =
                      IF msg.err THEN <<>>
                      ELSE IF msg.details # Nil THEN msg.details[1].builds ELSE recentBuilds
                /\ parameterDefs' =
                      IF msg.err THEN <<>>
                      ELSE IF msg.details # Nil THEN msg.details[1].params ELSE parameterDefs
                /\ IF MatchesInFlight(msg.ticket)
                   THEN LET fb == setFeedbackWithTicket(
                                      msg.ticket,
                                      IF msg.err THEN "error"
                                      ELSE defaultSuccessMessage(inFlight[1].kind),
                                      msg.err, "details")
                        IN  /\ feedback' = fb.feedback
                            /\ actionTicket' = fb.actionTicket
                            /\ clearTimers' = clearTimers \cup fb.cmds
                            /\ inFlight' = Nil
                   ELSE UNCHANGED <<inFlight, feedback, actionTicket, clearTimers>>

\* The messages an action command can return: an error, or success with its message.
ActionResults(c) ==
    {[type |-> "actionResultMsg", ticket |-> c.ticket, kind |-> c.kind,
      message |-> IF ok THEN defaultSuccessMessage(c.kind) ELSE "", err |-> ~ok] :
        ok \in BOOLEAN}

\* Update, case actionResultMsg.
ActionResult ==
    \E c \in actionCmds : \E msg \in ActionResults(c) :
        /\ actionCmds' = actionCmds \ {c}
        /\ dMsg' = [type |-> msg.type, ticket |-> msg.ticket, kind |-> msg.kind]
        /\ UNCHANGED <<selectedJob, recentBuilds, parameterDefs, loading, detailsErr,
                       requestID, confirmation, detailFetches, modalJob>>
        /\ IF ~MatchesInFlight(msg.ticket)
           THEN UNCHANGED <<inFlight, feedback, actionTicket, clearTimers>>
           ELSE LET feedbackMsg ==
                        IF msg.message # "" THEN msg.message
                        ELSE IF msg.err THEN "error" ELSE defaultSuccessMessage(msg.kind)
                    fb == setFeedbackWithTicket(msg.ticket, feedbackMsg, msg.err, "action")
                IN  /\ feedback' = fb.feedback
                    /\ actionTicket' = fb.actionTicket
                    /\ clearTimers' = clearTimers \cup fb.cmds
                    /\ inFlight' = Nil

\* Update, case actionMessageClearedMsg.
ActionMessageCleared ==
    \E t \in clearTimers :
        /\ clearTimers' = clearTimers \ {t}
        /\ dMsg' = [type |-> "actionMessageClearedMsg", ticket |-> t.ticket, src |-> t.src]
        /\ feedback' = IF feedback # Nil /\ feedback[1].ticket = t.ticket THEN Nil ELSE feedback
        /\ UNCHANGED <<selectedJob, recentBuilds, parameterDefs, loading, detailsErr, requestID,
                       inFlight, confirmation, actionTicket, detailFetches, actionCmds, modalJob>>

\* Everything but the message register is left as it is: the handler returned early.
DetailsNoChange ==
    UNCHANGED <<selectedJob, recentBuilds, parameterDefs, loading, detailsErr, requestID,
                inFlight, feedback, confirmation, actionTicket, detailFetches, actionCmds,
                clearTimers, modalJob>>

\* A feedback set through setFeedback (ticket 0): a fresh action ticket and its timer.
\* In "return m, m.setFeedback(..)" the returned model carries the feedback: the
\* Go compiler evaluates the call before it copies m into the result.
ShowFeedback(message, isError) ==
    LET fb == setFeedback(message, isError)
    IN  /\ feedback' = fb.feedback
        /\ actionTicket' = fb.actionTicket
        /\ clearTimers' = clearTimers \cup fb.cmds

\* startTriggerBuildAction (the client is configured, the selected job is no folder).
startTriggerBuildAction ==
    IF inFlight # Nil \/ selectedJob = Nil
    THEN DetailsNoChange
    ELSE /\ actionTicket' = actionTicket + 1
         /\ inFlight' = Some([kind |-> ActionKindTriggerBuild, ticket |-> actionTicket + 1])
         /\ feedback' = Nil
         /\ actionCmds' = actionCmds \cup
                {[ticket |-> actionTicket + 1, kind |-> ActionKindTriggerBuild]}
         /\ UNCHANGED <<selectedJob, recentBuilds, parameterDefs, loading, detailsErr,
                        requestID, confirmation, detailFetches, clearTimers, modalJob>>

\* startAbortPrompt.
startAbortPrompt ==
    IF inFlight # Nil \/ ~isBuildRunning(selectedJob)
    THEN DetailsNoChange
    ELSE /\ confirmation' = Some(ActionKindAbortBuild)
         /\ UNCHANGED <<selectedJob, recentBuilds, parameterDefs, loading, detailsErr,
                        requestID, inFlight, feedback, actionTicket, detailFetches,
                        actionCmds, clearTimers, modalJob>>

\* startAbortExecution, entered from handleConfirmationKey after it cleared the prompt.
startAbortExecution ==
    IF inFlight # Nil \/ ~isBuildRunning(selectedJob)
    THEN /\ confirmation' = Nil
         /\ UNCHANGED <<selectedJob, recentBuilds, parameterDefs, loading, detailsErr,
                        requestID, inFlight, feedback, actionTicket, detailFetches,
                        actionCmds, clearTimers, modalJob>>
    ELSE /\ confirmation' = Nil
         /\ actionTicket' = actionTicket + 1
         /\ inFlight' = Some([kind |-> ActionKindAbortBuild, ticket |-> actionTicket + 1])
         /\ feedback' = Nil
         /\ actionCmds' = actionCmds \cup
                {[ticket |-> actionTicket + 1, kind |-> ActionKindAbortBuild]}
         /\ UNCHANGED <<selectedJob, recentBuilds, parameterDefs, loading, detailsErr,
                        requestID, detailFetches, clearTimers, modalJob>>

\* startRefreshAction, with startJobDetailsRequest: the refresh action takes the
\* ticket of the job-detail request it starts.
startRefreshAction ==
    IF inFlight # Nil \/ selectedJob = Nil
    THEN DetailsNoChange
    ELSE /\ requestID < MaxRequestID
         /\ loading' = TRUE
         /\ detailsErr' = FALSE
         /\ requestID' = requestID + 1
         /\ detailFetches' = detailFetches \cup
                {[ticket |-> requestID + 1, job |-> selectedJob[1].name]}
         /\ inFlight' = Some([kind |-> ActionKindRefresh, ticket |-> requestID + 1])
         /\ feedback' = Nil
         /\ UNCHANGED <<selectedJob, recentBuilds, parameterDefs, confirmation, actionTicket,
                        actionCmds, clearTimers, modalJob>>

\* requestAction: the ActionRequestMsg goes to the root model, which opens the
\* parameters modal for view_parameters (openParametersModal).
requestAction(kind) ==
    IF selectedJob = Nil
    THEN DetailsNoChange
    ELSE IF kind = ActionKindViewParameters /\ Len(parameterDefs) = 0
    THEN /\ ShowFeedback("no_parameters", TRUE)
         /\ UNCHANGED <<selectedJob, recentBuilds, parameterDefs, loading, detailsErr,
                        requestID, inFlight, confirmation, detailFetches, actionCmds, modalJob>>
    ELSE /\ ShowFeedback("request", FALSE)
         /\ modalJob' = IF kind = ActionKindViewParameters
                        THEN Some(selectedJob[1].name) ELSE modalJob
         /\ UNCHANGED <<selectedJob, recentBuilds, parameterDefs, loading, detailsErr,
                        requestID, inFlight, confirmation, detailFetches, actionCmds>>

\* handleConfirmationKey.
handleConfirmationKey(key) ==
    IF key = "y"
    THEN startAbortExecution
    ELSE IF key = "n"
    THEN /\ confirmation' = Nil
         /\ ShowFeedback("abort_cancelled", FALSE)
         /\ UNCHANGED <<selectedJob, recentBuilds, parameterDefs, loading, detailsErr,
                        requestID, inFlight, detailFetches, actionCmds, modalJob>>
    ELSE DetailsNoChange

\* handleKeyMsg.
handleKeyMsg(key) ==
    IF confirmation # Nil
    THEN handleConfirmationKey(key)
    ELSE IF loading \/ selectedJob = Nil
    THEN DetailsNoChange
    ELSE CASE key = "b" -> IF hasParameterDefinitions
                           THEN requestAction(ActionKindViewParameters)
                           ELSE startTriggerBuildAction
           [] key = "a" -> startAbortPrompt
           [] key = "r" -> startRefreshAction
           [] key = "l" -> requestAction(ActionKindViewLogs)
           [] key = "p" -> requestAction(ActionKindViewParameters)
           [] key = "H" -> requestAction(ActionKindViewHistory)
           [] key = "c" -> requestAction(ActionKindViewConfig)
           [] OTHER -> DetailsNoChange

\* Update, case tea.KeyMsg.
DetailsKey ==
    \E key \in DetailKeys :
        /\ actionTicket < MaxActionTicket
        /\ dMsg' = [type |-> "KeyMsg", key |-> key]
        /\ handleKeyMsg(key)

\* Update, case RefreshRequestedMsg.
DetailsRefreshRequested ==
    /\ dMsg' = [type |-> "RefreshRequestedMsg"]
    /\ IF selectedJob # Nil THEN startRefreshAction ELSE DetailsNoChange

\* Update, case ParameterSubmissionMsg: handleParameterSubmission.  The modal
\* submits for the job it was opened for, and the root model closes it.
ParameterSubmission ==
    /\ modalJob # Nil
    /\ actionTicket < MaxActionTicket
    /\ dMsg' = [type |-> "ParameterSubmissionMsg", JobFullName |-> modalJob[1]]
    /\ modalJob' = Nil
    /\ IF inFlight # Nil
       THEN UNCHANGED <<selectedJob, recentBuilds, parameterDefs, loading, detailsErr, requestID,
                        inFlight, feedback, confirmation, actionTicket, detailFetches,
                        actionCmds, clearTimers>>
       ELSE IF selectedJob = Nil
       THEN /\ ShowFeedback("no_job_selected", TRUE)
            /\ UNCHANGED <<selectedJob, recentBuilds, parameterDefs, loading, detailsErr,
                           requestID, inFlight, confirmation, detailFetches, actionCmds>>
       ELSE IF selectedJob[1].name # modalJob[1]
       THEN /\ ShowFeedback("job_changed", TRUE)
            /\ UNCHANGED <<selectedJob, recentBuilds, parameterDefs, loading, detailsErr,
                           requestID, inFlight, confirmation, detailFetches, actionCmds>>
       ELSE /\ actionTicket' = actionTicket + 1
            /\ inFlight' = Some([kind |-> ActionKindTriggerBuildWithParams,
                                 ticket |-> actionTicket + 1])
            /\ feedback' = Nil
            /\ actionCmds' = actionCmds \cup
                   {[ticket |-> actionTicket + 1, kind |-> ActionKindTriggerBuildWithParams]}
            /\ UNCHANGED <<selectedJob, recentBuilds, parameterDefs, loading, detailsErr,
                           requestID, confirmation, detailFetches, clearTimers>>

\* Update, case ParameterCancelledMsg.
ParameterCancelled ==
    /\ modalJob # Nil
    /\ actionTicket < MaxActionTicket
    /\ dMsg' = [type |-> "ParameterCancelledMsg", JobFullName |-> modalJob[1]]
    /\ modalJob' = Nil
    /\ IF selectedJob # Nil /\ modalJob[1] = selectedJob[1].name
       THEN /\ ShowFeedback("parameters_cancelled", FALSE)
            /\ UNCHANGED <<selectedJob, recentBuilds, parameterDefs, loading, detailsErr,
                           requestID, inFlight, confirmation, detailFetches, actionCmds>>
       ELSE UNCHANGED <<selectedJob, recentBuilds, parameterDefs, loading, detailsErr, requestID,
                        inFlight, feedback, confirmation, actionTicket, detailFetches,
                        actionCmds, clearTimers>>

DetailsInit ==
    /\ selectedJob = Nil
    /\ recentBuilds = <<>>
    /\ parameterDefs = <<>>
    /\ loading = FALSE
    /\ detailsErr = FALSE
    /\ requestID = 0
    /\ inFlight = Nil
    /\ feedback = Nil
    /\ confirmation = Nil
    /\ actionTicket = 0
    /\ detailFetches = {}
    /\ actionCmds = {}
    /\ clearTimers = {}
    /\ modalJob = Nil
    /\ dMsg = [type |-> "none"]

----------------------------------------------------------------------------
(* The scrub engine: src/unnamed/part_006 (utils/ansi.go).  A string is a  *)
(* sequence of byte values.                                                *)

esc == 27

CarriageReturn == 13

Bell == 7

Backslash == 92

BracketOpen == 91

BracketClose == 93

Semicolon == 59

Digit0 == 48

Digit2 == 50

Digit8 == 56

LetterM == 109

\* input[end] < '@' || input[end] > '~' is false: the byte ends a CSI sequence.
IsFinalByte(b) == b >= 64 /\ b <= 126

\* The scan "for end < len(input) && not final { end++ }", on 1-based indexes:
\* the index of the first final byte at or after end, or Len(input) + 1.
RECURSIVE CSIEnd(_, _)
CSIEnd(input, end) ==
    IF end <= Len(input) /\ ~IsFinalByte(input[end])
    THEN CSIEnd(input, end + 1)
    ELSE end

\* The OSC scan: the index after the terminating BEL or ESC \, or Len(input) + 1.
RECURSIVE OSCEnd(_, _)
OSCEnd(input, end) ==
    IF end > Len(input) THEN end
    ELSE IF input[end] = Bell THEN end + 1
    ELSE IF input[end] = esc /\ end + 1 <= Len(input) /\ input[end + 1] = Backslash
    THEN end + 2
    ELSE OSCEnd(input, end + 1)

\* strings.Split(params, ";"), for a non-empty params.
RECURSIVE SplitParams(_, _, _)
SplitParams(params, i, part) ==
    IF i > Len(params) THEN <<part>>
    ELSE IF params[i] = Semicolon THEN <<part>> \o SplitParams(params, i + 1, <<>>)
    ELSE SplitParams(params, i + 1, Append(part, params[i]))

\* The loop over the parts stopping after the first part, as a loop that
\* returned from inside its switch would.
ApplyPartsFirstOnly(parts, i, conceal) ==
    IF i > 1 \/ i > Len(parts) THEN conceal
    ELSE IF parts[i] = <<Digit8>> THEN TRUE
    ELSE IF parts[i] \in {<<Digit0>>, <<Digit0, Digit0>>, <<Digit2, Digit8>>} THEN FALSE
    ELSE conceal

\* The loop over the parts of a graphics sequence.
RECURSIVE ApplyParts(_, _, _)
ApplyParts(parts, i, conceal) ==
    IF i > Len(parts) THEN conceal
    ELSE IF parts[i] = <<Digit8>> THEN ApplyParts(parts, i + 1, TRUE)
    ELSE IF parts[i] \in {<<Digit0>>, <<Digit0, Digit0>>, <<Digit2, Digit8>>}
    THEN ApplyParts(parts, i + 1, FALSE)
    ELSE ApplyParts(parts, i + 1, conceal)

\* The byte loop treating a cursor/graphics sequence that is cut by the end
\* of the chunk like an unsupported escape: only the escape byte is skipped.
RECURSIVE ScrubFromEmitsPartial(_, _, _, _)
ScrubFromEmitsPartial(input, i, out, conceal) ==
    IF i > Len(input) THEN [text |-> out, conceal |-> conceal]
    ELSE IF input[i] = CarriageReturn THEN ScrubFromEmitsPartial(input, i + 1, out, conceal)
    ELSE IF input[i] = esc
    THEN IF i + 1 > Len(input) THEN ScrubFromEmitsPartial(input, i + 1, out, conceal)
         ELSE IF input[i + 1] = BracketOpen
         THEN LET end == CSIEnd(input, i + 2)
              IN  IF end > Len(input)
                  THEN ScrubFromEmitsPartial(input, i + 1, out, conceal)
                  ELSE IF input[end] = LetterM
                  THEN LET params == SubSeq(input, i + 2, end - 1)
                       IN  IF params = <<>>
                           THEN ScrubFromEmitsPartial(input, end + 1, out, FALSE)
                           ELSE ScrubFromEmitsPartial(input, end + 1, out,
                                          ApplyParts(SplitParams(params, 1, <<>>), 1, conceal))
                  ELSE ScrubFromEmitsPartial(input, end + 1, out, conceal)
         ELSE IF input[i + 1] = BracketClose
         THEN ScrubFromEmitsPartial(input, OSCEnd(input, i + 2), out, conceal)
         ELSE ScrubFromEmitsPartial(input, i + 1, out, conceal)
    ELSE IF conceal THEN ScrubFromEmitsPartial(input, i + 1, out, conceal)
    ELSE ScrubFromEmitsPartial(input, i + 1, Append(out, input[i]), conceal)

\* The byte loop of StripANSISecrets from (1-based) index i, with the text built
\* so far and the conceal flag.
RECURSIVE ScrubFrom(_, _, _, _)
ScrubFrom(input, i, out, conceal) ==
    IF i > Len(input) THEN [text |-> out, conceal |-> conceal]
    ELSE IF input[i] = CarriageReturn THEN ScrubFrom(input, i + 1, out, conceal)
    ELSE IF input[i] = esc
    THEN IF i + 1 > Len(input) THEN ScrubFrom(input, i + 1, out, conceal)
         ELSE IF input[i + 1] = BracketOpen
         THEN LET end == CSIEnd(input, i + 2)
              IN  IF end > Len(input)
                  THEN [text |-> out, conceal |-> conceal]
                  ELSE IF input[end] = LetterM
                  THEN LET params == SubSeq(input, i + 2, end - 1)
                       IN  IF params = <<>>
                           THEN ScrubFrom(input, end + 1, out, FALSE)
                           ELSE ScrubFrom(input, end + 1, out,
                                          ApplyParts(SplitParams(params, 1, <<>>), 1, conceal))
                  ELSE ScrubFrom(input, end + 1, out, conceal)
         ELSE IF input[i + 1] = BracketClose
         THEN ScrubFrom(input, OSCEnd(input, i + 2), out, conceal)
         ELSE ScrubFrom(input, i + 1, out, conceal)
    ELSE IF conceal THEN ScrubFrom(input, i + 1, out, conceal)
    ELSE ScrubFrom(input, i + 1, Append(out, input[i]), conceal)

\* StripANSISecrets returning a chunk without escape bytes as it is when
\* nothing is concealed, as a fast path in front of the byte loop would.
StripANSISecretsFastPath(input, active) ==
    IF ~active /\ \A k \in 1..Len(input) : input[k] # esc
    THEN [text |-> input, conceal |-> FALSE]
    ELSE ScrubFrom(input, 1, <<>>, active)

\* StripANSISecrets with the early return taken for every empty chunk.
StripANSISecretsEmptyResets(input, active) ==
    IF input = <<>>
    THEN [text |-> input, conceal |-> FALSE]
    ELSE ScrubFrom(input, 1, <<>>, active)

StripANSISecretsUnthreaded(input, active) == ScrubFrom(input, 1, <<>>, FALSE)

StripANSISecretsFromSecondByte(input, active) == ScrubFrom(input, 2, <<>>, active)

StripANSISecrets(input, active) ==
    IF input = <<>> /\ ~active
    THEN [text |-> input, conceal |-> FALSE]
    ELSE ScrubFrom(input, 1, <<>>, active)

\* A caller of the scrub engine that threads the conceal state from one call
\* to the next, as handleLogsChunk does (src/unnamed/part_005:427-431).  A
\* chunk is made of whole pieces: text bytes, carriage returns and complete
\* control sequences.
MaxTokens == 3

VARIABLES
    sTokens,         \* the pieces of the chunk scrubbed last
    sBefore,         \* the conceal state passed to that call
    sText,           \* the text it returned
    sActive          \* the conceal state it returned, passed to the next call

scrubVars == <<sTokens, sBefore, sText, sActive>>

\* The pieces of a chunk: the text byte "a", a carriage return, ESC[8m (conceal on),
\* ESC[0m (reset), ESC[2m (another graphics sequence) and ESC]0 BEL (an
\* OS-command sequence).
ScrubTokens ==
    { [kind |-> "text", bytes |-> <<97>>],
      [kind |-> "cr", bytes |-> <<CarriageReturn>>],
      [kind |-> "on", bytes |-> <<esc, BracketOpen, Digit8, LetterM>>],
      [kind |-> "off", bytes |-> <<esc, BracketOpen, Digit0, LetterM>>],
      [kind |-> "other", bytes |-> <<esc, BracketOpen, Digit2, LetterM>>],
      [kind |-> "other", bytes |-> <<esc, BracketClose, Digit0, Bell>>] }

TokenChunks == UNION {[1..n -> ScrubTokens] : n \in 0..MaxTokens}

\* The bytes of a chunk given by its pieces.
RECURSIVE ChunkBytes(_)
ChunkBytes(tokens) ==
    IF tokens = <<>> THEN <<>>
    ELSE Head(tokens).bytes \o ChunkBytes(Tail(tokens))

\* One call: m.content's caller scrubs the chunk with the threaded state.
ScrubChunk ==
    \E tokens \in TokenChunks :
        LET scrubbed == StripANSISecrets(ChunkBytes(tokens), sActive)
        IN  /\ sTokens' = tokens
            /\ sBefore' = sActive
            /\ sText' = scrubbed.text
            /\ sActive' = scrubbed.conceal

\* Single control sequences, given by their parts: a cursor/graphics
\* sequence ESC [ p1 ; p2 ... f with its parameters and its final byte ("m"
\* for set graphics, 75 is "K", erase in line), and an OS-command sequence
\* ended by BEL or by ESC \.
MaxParams == 2

ParamStrings ==
    { <<>>, <<Digit0>>, <<Digit8>>, <<Digit2>>, <<Digit0, Digit0>>,
      <<Digit2, Digit8>>, <<Digit8, Digit8>> }

\* The parameter lists; the list of one empty parameter is written like the
\* empty list and is left out.
GraphicsParams == UNION {[1..n -> ParamStrings] : n \in 0..MaxParams} \ { << <<>> >> }

RECURSIVE JoinParams(_)
JoinParams(parts) ==
    IF parts = <<>> THEN <<>>
    ELSE IF Len(parts) = 1 THEN parts[1]
    ELSE parts[1] \o <<Semicolon>> \o JoinParams(Tail(parts))

PieceOf(kind, params, final, bytes) ==
    [kind |-> kind, params |-> params, final |-> final, bytes |-> bytes]

TextPiece == PieceOf("text", <<>>, 0, <<97>>)

SequencePieces ==
    { PieceOf("csi", ps, f, <<esc, BracketOpen>> \o JoinParams(ps) \o <<f>>) :
          ps \in GraphicsParams, f \in {LetterM, 75} }
    \cup { PieceOf("osc", <<>>, Bell, <<esc, BracketClose, Digit8, Bell>>),
           PieceOf("osc", <<>>, Backslash, <<esc, BracketClose, Digit8, esc, Backslash>>) }

\* What a chunk can end with when it is cut inside a control sequence.
PartialPieces ==
    { PieceOf("partial", <<>>, 0, bytes) :
          bytes \in { <<esc>>,
                      <<esc, BracketOpen>>,
                      <<esc, BracketOpen, Digit8>>,
                      <<esc, BracketOpen, Digit0>>,
                      <<esc, BracketOpen, Digit8, Semicolon>>,
                      <<esc, BracketClose, Digit0>>,
                      <<esc, BracketClose, Digit0, esc>> } }

\* What comes before the cut: text, conceal on, reset.
LeadPieces ==
    { TextPiece,
      PieceOf("on", <<<<Digit8>>>>, LetterM, <<esc, BracketOpen, Digit8, LetterM>>),
      PieceOf("off", <<<<Digit0>>>>, LetterM, <<esc, BracketOpen, Digit0, LetterM>>) }

LeadChunks == UNION {[1..n -> LeadPieces] : n \in 0..MaxParams}

\* One call, the first, on text, one complete control sequence, text.
ScrubSequence ==
    \E seq \in SequencePieces : \E before \in BOOLEAN :
        LET tokens == <<TextPiece, seq, TextPiece>>
            scrubbed == StripANSISecrets(ChunkBytes(tokens), before)
        IN  /\ sTokens = <<>>
            /\ sTokens' = tokens
            /\ sBefore' = before
            /\ sText' = scrubbed.text
            /\ sActive' = scrubbed.conceal

\* One call, the first, on a chunk cut inside a control sequence.
ScrubPartial ==
    \E lead \in LeadChunks : \E cut \in PartialPieces : \E before \in BOOLEAN :
        LET tokens == Append(lead, cut)
            scrubbed == StripANSISecrets(ChunkBytes(tokens), before)
        IN  /\ sTokens = <<>>
            /\ sTokens' = tokens
            /\ sBefore' = before
            /\ sText' = scrubbed.text
            /\ sActive' = scrubbed.conceal

\* Chunks of arbitrary bytes: text, carriage return, escape and the bytes
\* control sequences are made of, in any order.
MaxBytes == 4

ScrubBytes == {97, CarriageReturn, esc, BracketOpen, BracketClose, Digit8, LetterM, Bell, Backslash}

ByteChunks == UNION {[1..n -> ScrubBytes] : n \in 0..MaxBytes}

RawPiece(bytes) == [kind |-> "raw", bytes |-> bytes]

\* One call, the first, on a chunk of arbitrary bytes.
ScrubRaw ==
    /\ sTokens = <<>>
    /\ \E input \in ByteChunks : \E before \in BOOLEAN :
        LET scrubbed == StripANSISecrets(input, before)
        IN  /\ sTokens' = <<RawPiece(input)>>
            /\ sBefore' = before
            /\ sText' = scrubbed.text
            /\ sActive' = scrubbed.conceal

\* Two calls on the two parts of a chunk cut at any byte, the way
\* handleLogsChunk scrubs two consecutive answers: the conceal state the first
\* call returns is passed to the second, the second text is appended to the first.
ScrubSplit ==
    /\ sTokens = <<>>
    /\ \E input \in ByteChunks : \E cut \in 0..Len(input) : \E before \in BOOLEAN :
        LET first == SubSeq(input, 1, cut)
            second == SubSeq(input, cut + 1, Len(input))
            one == StripANSISecrets(first, before)
            two == StripANSISecrets(second, one.conceal)
        IN  /\ sTokens' = <<RawPiece(first), RawPiece(second)>>
            /\ sBefore' = before
            /\ sText' = one.text \o two.text
            /\ sActive' = two.conceal

ScrubInit ==
    /\ sTokens = <<>>
    /\ sBefore = FALSE
    /\ sText = <<>>
    /\ sActive = FALSE

----------------------------------------------------------------------------
(* The log console (src/unnamed/part_005, console/model.go) and the part   *)
(* of the application that opens and leaves it (src/unnamed/part_004,      *)
(* internal/app/console_resolver.go, internal/app/bottom_pane.go).         *)

MaxSession == 3

MaxResolves == 2

MaxTimers == 2

MaxContentLen == 1

MaxIdleExplored == 2

MaxIdleOvershoot == 2

MaxBufferLen == 2

maxIdlePollIterations == 150

VARIABLES
    session,         \* console.Model.session
    jobFullName,     \* console.Model.jobFullName ("" before the first open)
    buildNumber,     \* console.Model.buildNumber
    buildURL,        \* console.Model.buildURL: 0 is "", n the URL of build n
    hasTarget,
    shouldPoll,
    fetchInFlight,
    nextOffset,
    content,         \* the log buffer, a sequence of bytes
    hasContent,
    idlePolls,
    consoleErr,      \* console.Model.err # nil
    concealActive,
    autoScroll,      \* console.Model.autoScroll
    atBottom,        \* whether the viewport shows the end of the buffer
    logFetches,      \* log fetches issued and not yet answered
    pollTimers,      \* pending poll timers, counted per session tag
    bottomActive,    \* bottomPane.active: "details" or "console"
    async,           \* app.Model.async, the console target tracker
    resolveCmds,     \* target resolutions started and not yet answered
    resolveSeq,      \* number of resolutions started (names them; not in the code)
    exitPending,     \* an ExitRequestedMsg is on its way to the application
    cMsg             \* the message the application processed last

consoleModelVars ==
    <<session, jobFullName, buildNumber, buildURL, hasTarget, shouldPoll,
      fetchInFlight, nextOffset, content, hasContent, idlePolls, consoleErr,
      concealActive, autoScroll, atBottom>>

consoleVars ==
    <<consoleModelVars, logFetches, pollTimers, bottomActive, async,
      resolveCmds, resolveSeq, exitPending, cMsg>>

Sessions == 0..MaxSession

\* The offsets a server answers with.
Offsets == 0..1

\* The build numbers of the jobs.
BuildNumbers == 1..2

\* The raw chunks a server response can carry: nothing, "a" (byte 97),
\* ESC[8m followed by "a" (concealed), and ESC[0m followed by "a" (revealed).
LogChunks ==
    { <<>>, <<97>>,
      <<esc, BracketOpen, Digit8, LetterM, 97>>,
      <<esc, BracketOpen, Digit0, LetterM, 97>> }

\* What GetProgressiveLog can return for a fetch (src/unnamed/part_009:524-565):
\* an error with "", 0, false, or a chunk with the server's next offset and
\* more-data flag.
LogResponses(chunks) ==
    {[err |-> TRUE, content |-> <<>>, nextOffset |-> 0, more |-> FALSE]}
    \cup [err : {FALSE}, content : chunks, nextOffset : Offsets, more : BOOLEAN]

BuildRefs ==
    {Nil} \cup {Some([Number |-> n, URL |-> u]) : n \in BuildNumbers, u \in {0}}
          \cup {Some([Number |-> n, URL |-> n]) : n \in BuildNumbers}

\* ActionRequestMsg{Kind: view_logs}: the job, the build (nil or a build with
\* its number and URL) and whether the job carries a URL; Job.LastBuild is nil.
LogRequests == [Job : JobNames, Build : BuildRefs, JobHasURL : BOOLEAN]

\* What resolveConsoleTargetCmd can deliver for a job.
ResolveResponses ==
    {[Err |-> TRUE, BuildNumber |-> 0, BuildURL |-> 0]}
    \cup {[Err |-> FALSE, BuildNumber |-> n, BuildURL |-> u] :
              n \in {0} \cup BuildNumbers, u \in {0}}
    \cup {[Err |-> FALSE, BuildNumber |-> n, BuildURL |-> n] : n \in BuildNumbers}

IsCurrentSessionLoose(s) == s <= session

\* msg.session == m.session
IsCurrentSession(s) == s = session

IdleCapIgnored(n) == TRUE

BelowIdleCapOffByOne(n) == n <= maxIdlePollIterations

\* m.idlePolls < maxIdlePollIterations
BelowIdleCap(n) == n < maxIdlePollIterations

\* The command startFetch returns: the session and the offset its closure
\* holds.  Commands are kept in a set, so one issued while another with the
\* same session and offset is on its way is told apart by copy.
FetchCmd(s, o) ==
    LET same == {f.copy : f \in {g \in logFetches : g.session = s /\ g.offset = o}}
    IN  [session |-> s, offset |-> o,
         copy |-> CHOOSE k \in 0..Cardinality(same) : k \notin same]

\* startFetch without the test of fetchInFlight, as a fetch that did not
\* look for one under way would.
startFetchUnguarded ==
    IF hasTarget
    THEN /\ fetchInFlight' = TRUE
         /\ logFetches' = logFetches \cup {FetchCmd(session, nextOffset)}
    ELSE UNCHANGED <<fetchInFlight, logFetches>>

\* startFetch asking for the log from its start, as a fetch that forgot the
\* offset would.
startFetchFromStart ==
    IF hasTarget /\ ~fetchInFlight
    THEN /\ fetchInFlight' = TRUE
         /\ logFetches' = logFetches \cup {FetchCmd(session, 0)}
    ELSE UNCHANGED <<fetchInFlight, logFetches>>

\* startFetch, called with the flags the handler has set so far.
startFetch ==
    IF hasTarget /\ ~fetchInFlight
    THEN /\ fetchInFlight' = TRUE
         /\ logFetches' = logFetches \cup {FetchCmd(session, nextOffset)}
    ELSE UNCHANGED <<fetchInFlight, logFetches>>

\* handleOpenRequest keeping the buffer and the conceal state of the target
\* shown before, as an open that forgot to reset them would.
handleOpenRequestKeepsBuffer(msg) ==
    LET target == (msg.BuildNumber > 0 /\ msg.JobFullName # "") \/ msg.BuildURL # 0
    IN  /\ session' = session + 1
        /\ jobFullName' = msg.JobFullName
        /\ buildNumber' = msg.BuildNumber
        /\ buildURL' = msg.BuildURL
        /\ hasTarget' = target
        /\ nextOffset' = 0
        /\ consoleErr' = FALSE
        /\ autoScroll' = TRUE
        /\ atBottom' = TRUE
        /\ idlePolls' = 0
        /\ shouldPoll' = target
        /\ fetchInFlight' = target
        /\ logFetches' = IF target
                         THEN logFetches \cup {FetchCmd(session + 1, 0)}
                         ELSE logFetches
        /\ UNCHANGED <<pollTimers, content, hasContent, concealActive>>

handleOpenRequest(msg) ==
    LET target == (msg.BuildNumber > 0 /\ msg.JobFullName # "") \/ msg.BuildURL # 0
    IN  /\ session' = session + 1
        /\ jobFullName' = msg.JobFullName
        /\ buildNumber' = msg.BuildNumber
        /\ buildURL' = msg.BuildURL
        /\ hasTarget' = target
        /\ nextOffset' = 0
        /\ consoleErr' = FALSE
        /\ hasContent' = FALSE
        /\ idlePolls' = 0
        /\ concealActive' = FALSE
        /\ autoScroll' = TRUE
        /\ atBottom' = TRUE
        /\ content' = <<>>
        /\ shouldPoll' = target
        /\ fetchInFlight' = target
        /\ logFetches' = IF target
                         THEN logFetches \cup {FetchCmd(session + 1, 0)}
                         ELSE logFetches
        /\ UNCHANGED pollTimers

handleDeactivate ==
    /\ shouldPoll' = FALSE
    /\ UNCHANGED <<session, jobFullName, buildNumber, buildURL, hasTarget,
                   fetchInFlight, nextOffset, content, hasContent, idlePolls,
                   consoleErr, concealActive, autoScroll, atBottom, logFetches, pollTimers>>

scheduleNextPoll == [pollTimers EXCEPT ![session] = @ + 1]

\* Where the viewport can stand after a chunk: SetContent leaves the offset
\* alone, so a view at the end of a buffer that grew may no longer be at its
\* end (whether it is depends on the height of the pane), and GotoBottom
\* follows when autoScroll is set.
ViewAfterChunk(sanitized) ==
    IF autoScroll THEN {TRUE}
    ELSE IF Len(sanitized) > 0 /\ atBottom THEN {TRUE, FALSE}
    ELSE {atBottom}

handleLogsChunkReplacesContent(msg) ==
    /\ fetchInFlight' = FALSE
    /\ UNCHANGED <<session, jobFullName, buildNumber, buildURL, hasTarget, autoScroll>>
    /\ IF msg.err
       THEN /\ consoleErr' = TRUE
            /\ idlePolls' = 0
            /\ shouldPoll' = FALSE
            /\ UNCHANGED <<nextOffset, content, hasContent, concealActive, atBottom, pollTimers>>
       ELSE LET scrubbed == StripANSISecrets(msg.content, concealActive)
                sanitized == scrubbed.text
                hasProgress == Len(sanitized) > 0 \/ msg.nextOffset > nextOffset
                idle == IF hasProgress THEN 0 ELSE idlePolls + 1
                poll == msg.more \/ BelowIdleCap(idle)
            IN  /\ concealActive' = scrubbed.conceal
                /\ content' = sanitized
                /\ hasContent' = (hasContent \/ Len(sanitized) > 0)
                /\ idlePolls' = idle
                /\ nextOffset' = msg.nextOffset
                /\ shouldPoll' = poll
                /\ consoleErr' = FALSE
                /\ atBottom' \in ViewAfterChunk(sanitized)
                /\ pollTimers' = IF poll THEN scheduleNextPoll ELSE pollTimers

handleLogsChunkErrorKeepsPolling(msg) ==
    /\ fetchInFlight' = FALSE
    /\ UNCHANGED <<session, jobFullName, buildNumber, buildURL, hasTarget, autoScroll>>
    /\ IF msg.err
       THEN /\ consoleErr' = TRUE
            /\ idlePolls' = 0
            /\ shouldPoll' = TRUE
            /\ pollTimers' = scheduleNextPoll
            /\ UNCHANGED <<nextOffset, content, hasContent, concealActive, atBottom>>
       ELSE LET scrubbed == StripANSISecrets(msg.content, concealActive)
                sanitized == scrubbed.text
                hasProgress == Len(sanitized) > 0 \/ msg.nextOffset > nextOffset
                idle == IF hasProgress THEN 0 ELSE idlePolls + 1
                poll == msg.more \/ BelowIdleCap(idle)
            IN  /\ concealActive' = scrubbed.conceal
                /\ content' = content \o sanitized
                /\ hasContent' = (hasContent \/ Len(sanitized) > 0)
                /\ idlePolls' = idle
                /\ nextOffset' = msg.nextOffset
                /\ shouldPoll' = poll
                /\ consoleErr' = FALSE
                /\ atBottom' \in ViewAfterChunk(sanitized)
                /\ pollTimers' = IF poll THEN scheduleNextPoll ELSE pollTimers

handleLogsChunkIgnoresOffset(msg) ==
    /\ fetchInFlight' = FALSE
    /\ UNCHANGED <<session, jobFullName, buildNumber, buildURL, hasTarget, autoScroll>>
    /\ IF msg.err
       THEN /\ consoleErr' = TRUE
            /\ idlePolls' = 0
            /\ shouldPoll' = FALSE
            /\ UNCHANGED <<nextOffset, content, hasContent, concealActive, atBottom, pollTimers>>
       ELSE LET scrubbed == StripANSISecrets(msg.content, concealActive)
                sanitized == scrubbed.text
                hasProgress == Len(sanitized) > 0
                idle == IF hasProgress THEN 0 ELSE idlePolls + 1
                poll == msg.more \/ BelowIdleCap(idle)
            IN  /\ concealActive' = scrubbed.conceal
                /\ content' = content \o sanitized
                /\ hasContent' = (hasContent \/ Len(sanitized) > 0)
                /\ idlePolls' = idle
                /\ nextOffset' = msg.nextOffset
                /\ shouldPoll' = poll
                /\ consoleErr' = FALSE
                /\ atBottom' \in ViewAfterChunk(sanitized)
                /\ pollTimers' = IF poll THEN scheduleNextPoll ELSE pollTimers

handleLogsChunk(msg) ==
    /\ fetchInFlight' = FALSE
    /\ UNCHANGED <<session, jobFullName, buildNumber, buildURL, hasTarget, autoScroll>>
    /\ IF msg.err
       THEN /\ consoleErr' = TRUE
            /\ idlePolls' = 0
            /\ shouldPoll' = FALSE
            /\ UNCHANGED <<nextOffset, content, hasContent, concealActive, atBottom, pollTimers>>
       ELSE LET scrubbed == StripANSISecrets(msg.content, concealActive)
                sanitized == scrubbed.text
                hasProgress == Len(sanitized) > 0 \/ msg.nextOffset > nextOffset
                idle == IF hasProgress THEN 0 ELSE idlePolls + 1
                poll == msg.more \/ BelowIdleCap(idle)
            IN  /\ concealActive' = scrubbed.conceal
                /\ content' = content \o sanitized
                /\ hasContent' = (hasContent \/ Len(sanitized) > 0)
                /\ idlePolls' = idle
                /\ nextOffset' = msg.nextOffset
                /\ shouldPoll' = poll
                /\ consoleErr' = FALSE
                /\ atBottom' \in ViewAfterChunk(sanitized)
                /\ pollTimers' = IF poll THEN scheduleNextPoll ELSE pollTimers

appVarsOfConsole == <<bottomActive, async, resolveCmds, resolveSeq, exitPending>>

\* case logsChunkMsg of console.Update: the answer to one fetch arrives.  The
\* chunks the server may send and the idle count explored are the caller's.
LogsChunkWithin(chunks, idleLimit, maxLen) ==
    \E f \in logFetches : \E r \in LogResponses(chunks) :
        LET msg == [session |-> f.session, err |-> r.err, content |-> r.content,
                    nextOffset |-> r.nextOffset, more |-> r.more]
            sanitized == StripANSISecrets(msg.content, concealActive).text
            applied == IsCurrentSession(msg.session) /\ ~msg.err
        IN  /\ applied => Len(content) + Len(sanitized) <= maxLen
            /\ (applied /\ sanitized = <<>> /\ msg.nextOffset <= nextOffset)
                   => idlePolls < idleLimit
            /\ cMsg' = [type |-> "logsChunkMsg", session |-> msg.session,
                        err |-> msg.err, more |-> msg.more]
            /\ logFetches' = logFetches \ {f}
            /\ IF IsCurrentSession(msg.session)
               THEN handleLogsChunk(msg)
               ELSE UNCHANGED <<consoleModelVars, pollTimers>>
            /\ UNCHANGED appVarsOfConsole

LogsChunk(chunks, idleLimit) == LogsChunkWithin(chunks, idleLimit, MaxContentLen)

\* case pollLogsMsg of console.Update: one pending poll timer fires.
PollLogs ==
    \E s \in Sessions :
        /\ pollTimers[s] > 0
        /\ cMsg' = [type |-> "pollLogsMsg", session |-> s]
        /\ pollTimers' = [pollTimers EXCEPT ![s] = @ - 1]
        /\ IF IsCurrentSession(s) /\ shouldPoll /\ ~fetchInFlight
           THEN startFetch
           ELSE UNCHANGED <<fetchInFlight, logFetches>>
        /\ UNCHANGED <<session, jobFullName, buildNumber, buildURL, hasTarget,
                       shouldPoll, nextOffset, content, hasContent, idlePolls,
                       consoleErr, concealActive, autoScroll, atBottom>>
        /\ UNCHANGED appVarsOfConsole

\* The global key "r" while the console is the active bottom view:
\* startGlobalRefresh sends console.RefreshRequestedMsg.
ConsoleRefreshRequested ==
    /\ bottomActive = "console"
    /\ pollTimers[session] < MaxTimers
    /\ cMsg' = [type |-> "RefreshRequestedMsg"]
    /\ IF hasTarget
       THEN consoleErr' = FALSE /\ startFetch
       ELSE UNCHANGED <<consoleErr, fetchInFlight, logFetches>>
    /\ UNCHANGED <<session, jobFullName, buildNumber, buildURL, hasTarget,
                   shouldPoll, nextOffset, content, hasContent, idlePolls,
                   concealActive, autoScroll, atBottom, pollTimers>>
    /\ UNCHANGED appVarsOfConsole

\* The key "esc" routed to the console: it answers with an ExitRequestedMsg.
ConsoleEscKey ==
    /\ bottomActive = "console"
    /\ ~exitPending
    /\ cMsg' = [type |-> "KeyMsg", key |-> "esc"]
    /\ exitPending' = TRUE
    /\ UNCHANGED <<consoleModelVars, logFetches, pollTimers, bottomActive, async,
                   resolveCmds, resolveSeq>>

\* A key other than "esc" routed to the console while its search input is
\* closed: handleKeyMsg, then the viewport's own handling of the key.  Where
\* a scrolled view stands depends on the height of the pane.
ConsoleKey(keys) ==
    \E key \in keys :
        /\ bottomActive = "console"
        /\ cMsg' = [type |-> "KeyMsg", key |-> key]
        /\ CASE key = "s" ->
                 /\ autoScroll' = ~autoScroll
                 /\ atBottom' = (~autoScroll \/ atBottom)
                 /\ UNCHANGED <<consoleErr, fetchInFlight, logFetches>>
             [] key = "j" ->
                 /\ autoScroll' = FALSE
                 /\ atBottom' \in (IF atBottom THEN {TRUE} ELSE {TRUE, FALSE})
                 /\ UNCHANGED <<consoleErr, fetchInFlight, logFetches>>
             [] key \in {"k", "pgup"} ->
                 /\ autoScroll' = FALSE
                 /\ atBottom' \in (IF atBottom THEN {TRUE, FALSE} ELSE {FALSE})
                 /\ UNCHANGED <<consoleErr, fetchInFlight, logFetches>>
             [] key = "r" ->
                 /\ consoleErr' = FALSE
                 /\ startFetch
                 /\ UNCHANGED <<autoScroll, atBottom>>
        /\ UNCHANGED <<session, jobFullName, buildNumber, buildURL, hasTarget,
                       shouldPoll, nextOffset, content, hasContent, idlePolls,
                       concealActive, pollTimers>>
        /\ UNCHANGED appVarsOfConsole

\* bottomPane.ShowDetails
ShowDetails ==
    IF bottomActive = "details"
    THEN UNCHANGED <<consoleModelVars, logFetches, pollTimers, bottomActive>>
    ELSE handleDeactivate /\ bottomActive' = "details"

\* case console.ExitRequestedMsg of app.Update: handleConsoleExit.
handleConsoleExit ==
    /\ exitPending
    /\ cMsg' = [type |-> "ExitRequestedMsg"]
    /\ exitPending' = FALSE
    /\ ShowDetails
    /\ UNCHANGED <<async, resolveCmds, resolveSeq>>

\* consoleTargetTracker.WithTarget
WithTarget(name, url, number) ==
    [jobFullName |-> name, buildURL |-> url, buildNumber |-> number]

\* handleActionRequest with Kind = view_logs: openConsoleView.
openConsoleView(req) ==
    LET number == IF req.Build # Nil /\ req.Build[1].Number > 0
                  THEN req.Build[1].Number ELSE 0
        url0 == IF req.Build # Nil /\ req.Build[1].URL # 0 THEN req.Build[1].URL ELSE 0
        url == IF url0 = 0 /\ req.JobHasURL /\ number > 0 THEN number ELSE url0
        openMsg == [JobFullName |-> req.Job, BuildNumber |-> number, BuildURL |-> url]
    IN  /\ session < MaxSession
        /\ resolveSeq < MaxResolves
        /\ cMsg' = [type |-> "ActionRequestMsg", job |-> req.Job]
        /\ bottomActive' = "console"
        /\ handleOpenRequest(openMsg)
        /\ async' = WithTarget(req.Job, url, number)
        /\ resolveSeq' = resolveSeq + 1
        /\ resolveCmds' = resolveCmds \cup {[id |-> resolveSeq + 1, job |-> req.Job]}
        /\ UNCHANGED exitPending

\* ApplyResolution without the comparison of the job names, as a tracker
\* that took the answer for any job would.
ApplyResolutionAnyJob(t, msg) ==
    IF msg.Err \/ msg.JobFullName = ""
    THEN [tracker |-> t, open |-> Nil]
    ELSE LET number == IF msg.BuildNumber <= 0 THEN t.buildNumber ELSE msg.BuildNumber
             url == IF msg.BuildURL = 0 THEN t.buildURL ELSE msg.BuildURL
         IN  IF number = t.buildNumber /\ url = t.buildURL
             THEN [tracker |-> t, open |-> Nil]
             ELSE [tracker |-> [t EXCEPT !.buildNumber = number, !.buildURL = url],
                   open |-> Some([JobFullName |-> t.jobFullName,
                                  BuildNumber |-> number, BuildURL |-> url])]

\* consoleTargetTracker.ApplyResolution: the tracker afterwards and the
\* OpenRequestMsg to send (Nil for none).
ApplyResolution(t, msg) ==
    IF msg.Err \/ msg.JobFullName = "" \/ msg.JobFullName # t.jobFullName
    THEN [tracker |-> t, open |-> Nil]
    ELSE LET number == IF msg.BuildNumber <= 0 THEN t.buildNumber ELSE msg.BuildNumber
             url == IF msg.BuildURL = 0 THEN t.buildURL ELSE msg.BuildURL
         IN  IF number = t.buildNumber /\ url = t.buildURL
             THEN [tracker |-> t, open |-> Nil]
             ELSE [tracker |-> [t EXCEPT !.buildNumber = number, !.buildURL = url],
                   open |-> Some([JobFullName |-> t.jobFullName,
                                  BuildNumber |-> number, BuildURL |-> url])]

\* case consoleTargetResolvedMsg of app.Update: the answer to one started
\* resolution arrives.
handleConsoleTargetResolved ==
    \E c \in resolveCmds : \E r \in ResolveResponses :
        LET msg == [JobFullName |-> c.job, BuildNumber |-> r.BuildNumber,
                    BuildURL |-> r.BuildURL, Err |-> r.Err]
            res == ApplyResolution(async, msg)
        IN  /\ cMsg' = [type |-> "consoleTargetResolvedMsg", id |-> c.id,
                         JobFullName |-> msg.JobFullName, BuildNumber |-> msg.BuildNumber,
                         BuildURL |-> msg.BuildURL, Err |-> msg.Err]
            /\ resolveCmds' = resolveCmds \ {c}
            /\ UNCHANGED <<bottomActive, resolveSeq, exitPending>>
            /\ IF async.jobFullName = "" \/ res.open = Nil
               THEN UNCHANGED <<async, consoleModelVars, logFetches, pollTimers>>
               ELSE /\ session < MaxSession
                    /\ async' = res.tracker
                    /\ handleOpenRequest(res.open[1])

ConsoleInit ==
    /\ session = 0
    /\ jobFullName = ""
    /\ buildNumber = 0
    /\ buildURL = 0
    /\ hasTarget = FALSE
    /\ shouldPoll = FALSE
    /\ fetchInFlight = FALSE
    /\ nextOffset = 0
    /\ content = <<>>
    /\ hasContent = FALSE
    /\ idlePolls = 0
    /\ consoleErr = FALSE
    /\ concealActive = FALSE
    /\ autoScroll = TRUE
    /\ atBottom = TRUE
    /\ logFetches = {}
    /\ pollTimers = [s \in Sessions |-> 0]
    /\ bottomActive = "details"
    /\ async = [jobFullName |-> "", buildURL |-> 0, buildNumber |-> 0]
    /\ resolveCmds = {}
    /\ resolveSeq = 0
    /\ exitPending = FALSE
    /\ cMsg = [type |-> "none"]

\* The log requests of the console specification: a build with a known
\* number and URL, and a job that has no build yet.
ConsoleRequests ==
    { [Job |-> "a", Build |-> Some([Number |-> 1, URL |-> 1]), JobHasURL |-> TRUE],
      [Job |-> "b", Build |-> Nil, JobHasURL |-> TRUE] }

\* The console watching one build whose log stays silent: one open, then
\* responses that carry no text.
IdleRequest == [Job |-> "a", Build |-> Some([Number |-> 1, URL |-> 1]), JobHasURL |-> TRUE]

----------------------------------------------------------------------------
(* The jobs panel (src/internal/jobs/model.go, tree.go, search.go).  The   *)
(* panel is one record, and each method of the Go model is an operator     *)
(* from the record before the call to the record after it.  A string that  *)
(* is typed or matched is a sequence of one-character strings.             *)

MaxSearchTicket == 2

MaxQueryLen == 2

MaxListings == 2

MaxJobFetches == 1

VARIABLES
    jobs,        \* jobs.Model
    searchMsgs,  \* debounced searchQueuedMsg values on their way
    jobFetches,  \* fetchJobsCmd calls not yet answered
    jOut,        \* the command finalizeJobsModel returned last
    jMsg         \* the message the panel processed last

jobsVars == <<jobs, searchMsgs, jobFetches, jOut, jMsg>>

Leaf(name, full) == [Name |-> name, FullName |-> full, Folder |-> FALSE, Jobs |-> <<>>]

Folder(name, full, children) ==
    [Name |-> name, FullName |-> full, Folder |-> TRUE, Jobs |-> children]

\* Two job listings GetAllJobs can return.
ListingFull ==
    << Folder("a", "a", <<Leaf("b", "a/b"), Leaf("c", "a/c")>>),
       Folder("x", "x", <<Leaf("y", "x/y")>>) >>

ListingSmall == << Folder("a", "a", <<Leaf("b", "a/b")>>), Leaf("z", "z") >>

Listings == {ListingFull, ListingSmall}

\* The characters of the full names of the listings.
PathChars(full) ==
    CASE full = "a" -> <<"a">>
      [] full = "a/b" -> <<"a", "/", "b">>
      [] full = "a/c" -> <<"a", "/", "c">>
      [] full = "x" -> <<"x">>
      [] full = "x/y" -> <<"x", "/", "y">>
      [] full = "z" -> <<"z">>

\* strings.ToLower on one character.
ToLowerChar(c) == IF c = "A" THEN "a" ELSE IF c = "B" THEN "b" ELSE c

ToLower(str) == [i \in 1..Len(str) |-> ToLowerChar(str[i])]

\* strings.TrimSpace
RECURSIVE TrimLeft(_)
TrimLeft(str) ==
    IF str # <<>> /\ Head(str) = " " THEN TrimLeft(Tail(str)) ELSE str

RECURSIVE TrimRight(_)
TrimRight(str) ==
    IF str # <<>> /\ str[Len(str)] = " "
    THEN TrimRight(SubSeq(str, 1, Len(str) - 1))
    ELSE str

TrimSpace(str) == TrimRight(TrimLeft(str))

\* jenkins.Job.IsFolder
IsFolder(job) == Len(job.Jobs) > 0 \/ job.Folder

\* buildTree / addJobToTree: the nodes of the tree below the synthetic root,
\* in the order the jobs are added (parents before their children).  A node
\* names its parent by full name; "" is the root.
RECURSIVE addJobsToTree(_, _, _)
addJobsToTree(list, parent, level) ==
    IF list = <<>> THEN <<>>
    ELSE LET job == Head(list)
             node == [Name |-> job.Name, FullName |-> job.FullName,
                      IsFolder |-> IsFolder(job), Parent |-> parent, Level |-> level]
             below == IF node.IsFolder /\ Len(job.Jobs) > 0
                      THEN addJobsToTree(job.Jobs, job.FullName, level + 1)
                      ELSE <<>>
         IN  <<node>> \o below \o addJobsToTree(Tail(list), parent, level)

buildTree(list) == addJobsToTree(list, "", 0)

Children(nodes, parent) == SelectSeq(nodes, LAMBDA n : n.Parent = parent)

\* flattenVisibleNodes over the children kids of one node, then the node
\* itself: a node is listed, and its children after it when it is expanded.
RECURSIVE flattenEach(_, _, _)
flattenEach(nodes, expanded, kids) ==
    IF kids = <<>> THEN <<>>
    ELSE LET node == Head(kids)
             below == IF node.FullName \in expanded
                      THEN flattenEach(nodes, expanded, Children(nodes, node.FullName))
                      ELSE <<>>
         IN  <<node>> \o below \o flattenEach(nodes, expanded, Tail(kids))

\* The projection listing every node whose own parent is expanded, as a
\* flattening that did not look at the ancestors further up would.
flattenByParentOnly(nodes, expanded) ==
    SelectSeq(nodes, LAMBDA n : n.Parent = "" \/ n.Parent \in expanded)

flattenVisibleNodes(nodes, expanded) == flattenEach(nodes, expanded, Children(nodes, ""))

\* collectAllNodes: every node but the root, whatever is expanded.
RECURSIVE collectEach(_, _)
collectEach(nodes, kids) ==
    IF kids = <<>> THEN <<>>
    ELSE <<Head(kids)>> \o collectEach(nodes, Children(nodes, Head(kids).FullName))
                        \o collectEach(nodes, Tail(kids))

\* collectAllNodes stopping at the top level, as a collection that did not
\* descend into folders would.
collectTopLevelOnly(nodes) == Children(nodes, "")

collectAllNodes(nodes) == collectEach(nodes, Children(nodes, ""))

\* The ancestors expandPathToNode walks: the node and every parent above it.
RECURSIVE PathToNode(_, _)
PathToNode(nodes, full) ==
    IF full = "" THEN {}
    ELSE LET found == SelectSeq(nodes, LAMBDA n : n.FullName = full)
         IN  IF found = <<>> THEN {}
             ELSE {full} \cup PathToNode(nodes, found[1].Parent)

\* expandPathToNode: the expanded folders afterwards.
expandPathToNode(nodes, expanded, full) ==
    expanded \cup {f \in PathToNode(nodes, full) :
                      \E i \in 1..Len(nodes) : nodes[i].FullName = f /\ nodes[i].IsFolder}

\* toggleExpand, expandNode, collapseNode: the expanded folders afterwards.
\* node is Nil for a nil pointer.
toggleExpand(expanded, node) ==
    IF node # Nil /\ node[1].IsFolder
    THEN IF node[1].FullName \in expanded
         THEN expanded \ {node[1].FullName}
         ELSE expanded \cup {node[1].FullName}
    ELSE expanded

expandNodeAnyKind(expanded, node) ==
    IF node # Nil THEN expanded \cup {node[1].FullName} ELSE expanded

expandNode(expanded, node) ==
    IF node # Nil /\ node[1].IsFolder THEN expanded \cup {node[1].FullName} ELSE expanded

collapseNode(expanded, node) ==
    IF node # Nil /\ node[1].IsFolder THEN expanded \ {node[1].FullName} ELSE expanded

\* expandAll, collapseAll
FolderNames(nodes) == {nodes[i].FullName : i \in {j \in 1..Len(nodes) : nodes[j].IsFolder}}

expandTopLevelOnly(nodes) ==
    {nodes[i].FullName : i \in {j \in 1..Len(nodes) : nodes[j].IsFolder /\ nodes[j].Level = 0}}

expandAll(nodes) == FolderNames(nodes)

collapseAll(nodes) == {}

\* The tree functions on their own: a tree built from a listing, and the
\* expand and collapse operations applied to its nodes.
MaxTopJobs == 2

VARIABLES
    tListing,        \* the listing the tree was built from
    tNodes,          \* the nodes of the tree
    tExpanded,       \* the folders whose Expanded flag is set
    tOp              \* the operation applied last, and its node

treeVars == <<tListing, tNodes, tExpanded, tOp>>

TopNames == <<"a", "x", "z">>

\* The shapes of a top-level job named n: a job, an empty folder, folders
\* with one or two jobs, and folders with a folder inside.
JobShapes(n) ==
    { Leaf(n, n),
      Folder(n, n, <<>>),
      Folder(n, n, <<Leaf("b", n \o "/b")>>),
      Folder(n, n, <<Leaf("b", n \o "/b"), Leaf("c", n \o "/c")>>),
      Folder(n, n, <<Folder("b", n \o "/b", <<Leaf("d", n \o "/b/d")>>)>>),
      Folder(n, n, <<Folder("b", n \o "/b", <<Leaf("d", n \o "/b/d")>>),
                     Leaf("c", n \o "/c")>>) }

TreeListings ==
    UNION { {l \in [1..k -> UNION {JobShapes(TopNames[i]) : i \in 1..k}] :
                \A i \in 1..k : l[i] \in JobShapes(TopNames[i])} : k \in 0..MaxTopJobs }

\* A node of the tree, or a nil pointer.
NodeRefs == {Nil} \cup {Some(tNodes[i]) : i \in 1..Len(tNodes)}

\* buildTree starts from a fresh root: the tree is built once.
TreeBuild ==
    \E listing \in TreeListings :
        /\ tOp.op = "none"
        /\ tListing' = listing
        /\ tNodes' = buildTree(listing)
        /\ tExpanded' = {}
        /\ tOp' = [op |-> "buildTree", node |-> Nil]

TreeToggle ==
    \E node \in NodeRefs :
        /\ tExpanded' = toggleExpand(tExpanded, node)
        /\ tOp' = [op |-> "toggleExpand", node |-> node]
        /\ UNCHANGED <<tListing, tNodes>>

TreeExpand ==
    \E node \in NodeRefs :
        /\ tExpanded' = expandNode(tExpanded, node)
        /\ tOp' = [op |-> "expandNode", node |-> node]
        /\ UNCHANGED <<tListing, tNodes>>

TreeCollapse ==
    \E node \in NodeRefs :
        /\ tExpanded' = collapseNode(tExpanded, node)
        /\ tOp' = [op |-> "collapseNode", node |-> node]
        /\ UNCHANGED <<tListing, tNodes>>

TreeExpandAll ==
    /\ tExpanded' = expandAll(tNodes)
    /\ tOp' = [op |-> "expandAll", node |-> Nil]
    /\ UNCHANGED <<tListing, tNodes>>

TreeCollapseAll ==
    /\ tExpanded' = collapseAll(tNodes)
    /\ tOp' = [op |-> "collapseAll", node |-> Nil]
    /\ UNCHANGED <<tListing, tNodes>>

TreeInit ==
    /\ tListing = <<>>
    /\ tNodes = <<>>
    /\ tExpanded = {}
    /\ tOp = [op |-> "none", node |-> Nil]

\* Whether pattern occurs in str as a subsequence: the match test of the fuzzy
\* finder runFuzzySearch calls.
RECURSIVE IsSubsequence(_, _)
IsSubsequence(pattern, str) ==
    IF pattern = <<>> THEN TRUE
    ELSE IF str = <<>> THEN FALSE
    ELSE IF Head(pattern) = Head(str) THEN IsSubsequence(Tail(pattern), Tail(str))
    ELSE IsSubsequence(pattern, Tail(str))

\* runFuzzySearch: the catalog entries that match, as references (tree
\* generation and node); they are listed in catalog order, the ranking of the
\* finder is not modelled.
runFuzzySearch(query, catalog) ==
    IF query = <<>> \/ catalog = <<>> THEN <<>>
    ELSE SelectSeq(catalog,
                   LAMBDA r : IsSubsequence(ToLower(query), ToLower(PathChars(r.node.FullName))))

isFiltering(m) == m.searchQuery # <<>>

\* A reference to a node of the tree of generation gen.
Refs(gen, nodes) == [i \in 1..Len(nodes) |-> [gen |-> gen, node |-> nodes[i]]]

\* flattenVisibleNodes(m.tree), as references; empty for a nil tree.
VisibleNodes(m) ==
    IF m.tree THEN Refs(m.gen, flattenVisibleNodes(m.nodes, m.expanded)) ELSE <<>>

currentNodes(m) == IF isFiltering(m) THEN m.searchResults ELSE VisibleNodes(m)

currentSelectionFullName(m) ==
    LET nodes == currentNodes(m)
    IN  IF m.index >= 0 /\ m.index < Len(nodes) THEN nodes[m.index + 1].node.FullName ELSE ""

ensureSelection(m, visibleNodes) ==
    IF Len(visibleNodes) = 0 THEN m
    ELSE IF m.index < 0 \/ m.index >= Len(visibleNodes) THEN [m EXCEPT !.index = 0]
    ELSE m

refreshListItems(m) ==
    LET nodes == IF isFiltering(m) THEN m.searchResults ELSE VisibleNodes(m)
    IN  IF Len(nodes) = 0 THEN m ELSE ensureSelection(m, nodes)

selectByFullName(m, fullName) ==
    IF isFiltering(m) \/ fullName = "" \/ ~m.tree THEN m
    ELSE LET nodes == VisibleNodes(m)
             hits == {i \in 1..Len(nodes) : nodes[i].node.FullName = fullName}
         IN  IF hits # {}
             THEN [m EXCEPT !.index = (CHOOSE i \in hits : \A j \in hits : i <= j) - 1]
             ELSE IF Len(nodes) > 0 THEN [m EXCEPT !.index = Len(nodes) - 1]
             ELSE m

applySearch(m, query) ==
    LET m1 == [m EXCEPT !.searchQuery = TrimSpace(query), !.searchResults = <<>>]
        matches == runFuzzySearch(m1.searchQuery, m1.searchCatalog)
    IN  IF m1.searchQuery = <<>> THEN refreshListItems(m1)
        ELSE IF Len(matches) = 0 THEN refreshListItems(m1)
        ELSE [refreshListItems([m1 EXCEPT !.searchResults = matches]) EXCEPT !.index = 0]

exitSearchModeKeepsTicket(m, restorePrevious) ==
    LET m1 == [m EXCEPT !.searchMode = FALSE, !.focused = FALSE, !.value = <<>>]
        m2 == applySearch(m1, <<>>)
        m3 == IF restorePrevious /\ m2.preSearchSelection # ""
              THEN selectByFullName(m2, m2.preSearchSelection)
              ELSE m2
    IN  [m3 EXCEPT !.preSearchSelection = ""]

exitSearchMode(m, restorePrevious) ==
    LET m1 == [m EXCEPT !.searchTicket = @ + 1, !.searchMode = FALSE,
                        !.focused = FALSE, !.value = <<>>]
        m2 == applySearch(m1, <<>>)
        m3 == IF restorePrevious /\ m2.preSearchSelection # ""
              THEN selectByFullName(m2, m2.preSearchSelection)
              ELSE m2
    IN  [m3 EXCEPT !.preSearchSelection = ""]

\* debounceSearchCmd: the message it delivers after the debounce interval.
debounceSearchCmd(query, ticket) == [Query |-> TrimSpace(query), Ticket |-> ticket]

scheduleSearchReusesTicket(m, raw) ==
    LET normalized == TrimSpace(raw)
    IN  IF normalized = <<>>
        THEN [m |-> applySearch(m, <<>>), cmds |-> {}]
        ELSE [m |-> m, cmds |-> {debounceSearchCmd(normalized, m.searchTicket)}]

\* scheduleSearch: the model afterwards and the commands started.
scheduleSearch(m, raw) ==
    LET normalized == TrimSpace(raw)
        m1 == [m EXCEPT !.searchTicket = @ + 1]
    IN  IF normalized = <<>>
        THEN [m |-> applySearch(m1, <<>>), cmds |-> {}]
        ELSE [m |-> m1, cmds |-> {debounceSearchCmd(normalized, m1.searchTicket)}]

moveCursor(m, delta, nodes) ==
    IF Len(nodes) = 0 THEN m
    ELSE LET idx == IF m.index < 0 \/ m.index >= Len(nodes) THEN 0 ELSE m.index
         IN  [m EXCEPT !.index = (idx + delta + Len(nodes)) % Len(nodes)]

\* selectNode: select the node when it is visible.
selectNode(m, fullName) ==
    IF isFiltering(m) \/ ~m.tree THEN m
    ELSE LET nodes == VisibleNodes(m)
             hits == {i \in 1..Len(nodes) : nodes[i].node.FullName = fullName}
         IN  IF hits # {} THEN [m EXCEPT !.index = (CHOOSE i \in hits : TRUE) - 1] ELSE m

\* selectionChangedCmd: the model afterwards and the message it announces.
selectionChangedCmd(m) ==
    LET nodes == currentNodes(m)
        node == IF m.index >= 0 /\ m.index < Len(nodes) THEN Some(nodes[m.index + 1].node) ELSE Nil
    IN  IF node = Nil \/ node[1].IsFolder
        THEN IF m.lastSelectedFullName = ""
             THEN [m |-> m, out |-> [type |-> "none"]]
             ELSE [m |-> [m EXCEPT !.lastSelectedFullName = ""],
                   out |-> [type |-> "JobSelectionClearedMsg"]]
        ELSE IF node[1].FullName = m.lastSelectedFullName
        THEN [m |-> m, out |-> [type |-> "none"]]
        ELSE [m |-> [m EXCEPT !.lastSelectedFullName = node[1].FullName],
              out |-> [type |-> "JobSelectedMsg", job |-> node[1].FullName]]

\* textinput.Model.Update for a key: a character is appended at the cursor
\* (which stays at the end), backspace removes the last one.
TypeKey(value, key) ==
    IF key = "backspace"
    THEN IF value = <<>> THEN value ELSE SubSeq(value, 1, Len(value) - 1)
    ELSE IF key \in {"a", "B", " "} THEN Append(value, key)
    ELSE value

\* handleSearchKey: whether it handled the key, and the model afterwards.
handleSearchKey(m, key) ==
    IF key = "/"
    THEN IF ~m.searchMode
         THEN [handled |-> TRUE,
               m |-> [m EXCEPT !.preSearchSelection = currentSelectionFullName(m),
                               !.searchMode = TRUE,
                               !.value = m.searchQuery,
                               !.focused = TRUE]]
         ELSE IF ~m.focused
         THEN [handled |-> TRUE, m |-> [m EXCEPT !.focused = TRUE]]
         ELSE [handled |-> FALSE, m |-> m]
    ELSE IF key = "esc"
    THEN IF m.searchMode
         THEN [handled |-> TRUE, m |-> exitSearchMode(m, TRUE)]
         ELSE [handled |-> FALSE, m |-> m]
    ELSE IF ~m.searchMode THEN [handled |-> FALSE, m |-> m]
    ELSE IF key = "enter" /\ m.focused
    THEN [handled |-> TRUE, m |-> [m EXCEPT !.focused = FALSE]]
    ELSE IF key = "n" /\ ~m.focused /\ Len(m.searchResults) > 0
    THEN [handled |-> TRUE, m |-> moveCursor(m, 1, m.searchResults)]
    ELSE [handled |-> FALSE, m |-> m]

\* The keys handled while the list has the focus and no filter is applied.
treeKey(m, key, nodes, cur) ==
    LET full == cur.node.FullName
        parent == cur.node.Parent
        isExpanded == full \in m.expanded
    IN  IF key = "h"
        THEN IF cur.node.IsFolder /\ isExpanded
             THEN selectByFullName(refreshListItems([m EXCEPT !.expanded = @ \ {full}]), full)
             ELSE IF parent # "" THEN selectNode(m, parent)
             ELSE m
        ELSE IF key = "l"
        THEN IF cur.node.IsFolder /\ ~isExpanded
             THEN selectByFullName(refreshListItems([m EXCEPT !.expanded = @ \cup {full}]), full)
             ELSE m
        ELSE IF key = " "
        THEN IF cur.node.IsFolder
             THEN selectByFullName(
                      refreshListItems([m EXCEPT !.expanded = IF isExpanded THEN @ \ {full}
                                                              ELSE @ \cup {full}]), full)
             ELSE m
        ELSE IF key = "j" THEN moveCursor(m, 1, nodes)
        ELSE IF key = "k" THEN moveCursor(m, -1, nodes)
        ELSE m

\* handleKeyMsg: the model afterwards, the debounce commands started and
\* the job announced by jobSelectedCmd (Nil for none).
handleKeyMsg_jobs(m, key) ==
    LET sk == handleSearchKey(m, key)
        nodes == currentNodes(m)
        m1 == ensureSelection(m, nodes)
        index == IF m1.index < 0 \/ m1.index >= Len(nodes) THEN 0 ELSE m1.index
        cur == nodes[index + 1]
        value == TypeKey(m.value, key)
        sched == scheduleSearch([m EXCEPT !.value = value], value)
        opened == [m1 EXCEPT !.expanded =
                       IF cur.gen = m1.gen
                       THEN expandPathToNode(m1.nodes, @, cur.node.FullName)
                       ELSE @]
        committed == selectByFullName(exitSearchMode(opened, FALSE), cur.node.FullName)
        announce == IF ~cur.node.IsFolder THEN Some(cur.node.FullName) ELSE Nil
    IN  IF m.loading THEN [m |-> m, cmds |-> {}, sel |-> Nil]
        ELSE IF sk.handled THEN [m |-> sk.m, cmds |-> {}, sel |-> Nil]
        ELSE IF m.searchMode /\ m.focused
        THEN IF value # m.value
             THEN [m |-> sched.m, cmds |-> sched.cmds, sel |-> Nil]
             ELSE [m |-> m, cmds |-> {}, sel |-> Nil]
        ELSE IF Len(nodes) = 0 THEN [m |-> m, cmds |-> {}, sel |-> Nil]
        ELSE IF isFiltering(m1)
        THEN IF key = "j" THEN [m |-> moveCursor(m1, 1, nodes), cmds |-> {}, sel |-> Nil]
             ELSE IF key = "k" THEN [m |-> moveCursor(m1, -1, nodes), cmds |-> {}, sel |-> Nil]
             ELSE IF key = "enter" THEN [m |-> committed, cmds |-> {}, sel |-> announce]
             ELSE [m |-> m1, cmds |-> {}, sel |-> Nil]
        ELSE IF key = "enter" THEN [m |-> m1, cmds |-> {}, sel |-> announce]
        ELSE [m |-> treeKey(m1, key, nodes, cur), cmds |-> {}, sel |-> Nil]

JobKeys == {"/", "esc", "enter", "backspace", "a", "B", " ", "j", "k", "h", "l", "n"}

\* The keys pressed while the search input has the focus.
InputKeys == {"esc", "enter", "backspace", "a", "B", " "}

\* case tea.KeyMsg of jobs.Update.
JobsKey(keys) ==
    \E key \in keys :
        LET r == handleKeyMsg_jobs(jobs, key)
            f == selectionChangedCmd(r.m)
        IN  /\ (jobs.searchMode /\ jobs.focused) => key \in InputKeys
            /\ r.m.searchTicket <= MaxSearchTicket
            /\ Len(r.m.value) <= MaxQueryLen
            /\ jobs' = f.m
            /\ searchMsgs' = searchMsgs \cup r.cmds
            /\ jOut' = [sel |-> r.sel, final |-> f.out]
            /\ jMsg' = [type |-> "KeyMsg", key |-> key]
            /\ UNCHANGED jobFetches

IsCurrentSearchLoose(ticket) == ticket <= jobs.searchTicket

\* msg.Ticket != m.searchTicket is false
IsCurrentSearch(ticket) == ticket = jobs.searchTicket

\* case searchQueuedMsg of jobs.Update.
SearchQueued ==
    \E msg \in searchMsgs :
        LET m1 == IF IsCurrentSearch(msg.Ticket) THEN applySearch(jobs, msg.Query) ELSE jobs
            f == selectionChangedCmd(m1)
        IN  /\ jobs' = f.m
            /\ searchMsgs' = searchMsgs \ {msg}
            /\ jOut' = [sel |-> Nil, final |-> f.out]
            /\ jMsg' = [type |-> "searchQueuedMsg", Ticket |-> msg.Ticket, Query |-> msg.Query]
            /\ UNCHANGED jobFetches

\* case JobsFetchedMsg of jobs.Update.
JobsFetched(listings) ==
    \E listing \in listings :
        LET nodes == buildTree(listing)
            m1 == [jobs EXCEPT !.loading = FALSE, !.err = FALSE, !.tree = TRUE,
                               !.nodes = nodes, !.expanded = {}, !.gen = @ + 1,
                               !.searchCatalog = Refs(jobs.gen + 1, collectAllNodes(nodes))]
            m2 == [refreshListItems(m1) EXCEPT !.lastSelectedFullName = ""]
            f == selectionChangedCmd(m2)
        IN  /\ jobFetches > 0
            /\ jobs.gen < MaxListings
            /\ jobs' = f.m
            /\ jobFetches' = jobFetches - 1
            /\ jOut' = [sel |-> Nil, final |-> f.out]
            /\ jMsg' = [type |-> "JobsFetchedMsg"]
            /\ UNCHANGED searchMsgs

\* case JobsErrorMsg of jobs.Update.
JobsError ==
    LET m1 == [jobs EXCEPT !.loading = FALSE, !.err = TRUE, !.tree = FALSE,
                           !.nodes = <<>>, !.expanded = {}]
        f == selectionChangedCmd(m1)
    IN  /\ jobFetches > 0
        /\ jobs' = f.m
        /\ jobFetches' = jobFetches - 1
        /\ jOut' = [sel |-> Nil, final |-> f.out]
        /\ jMsg' = [type |-> "JobsErrorMsg"]
        /\ UNCHANGED searchMsgs

\* case RefreshRequestedMsg of jobs.Update.
JobsRefreshRequested ==
    LET m1 == [jobs EXCEPT !.loading = TRUE, !.err = FALSE]
        f == selectionChangedCmd(m1)
    IN  /\ jobFetches < MaxJobFetches
        /\ jobs' = f.m
        /\ jobFetches' = jobFetches + 1
        /\ jOut' = [sel |-> Nil, final |-> f.out]
        /\ jMsg' = [type |-> "RefreshRequestedMsg"]
        /\ UNCHANGED searchMsgs

\* jobs.New followed by Init, which starts the first fetch.
JobsInit ==
    /\ jobs = [loading |-> TRUE, err |-> FALSE, tree |-> FALSE, nodes |-> <<>>,
               expanded |-> {}, gen |-> 0, index |-> 0, searchMode |-> FALSE,
               searchQuery |-> <<>>, focused |-> FALSE, value |-> <<>>,
               searchResults |-> <<>>, searchCatalog |-> <<>>, searchTicket |-> 0,
               preSearchSelection |-> "", lastSelectedFullName |-> ""]
    /\ searchMsgs = {}
    /\ jobFetches = 1
    /\ jOut = [sel |-> Nil, final |-> [type |-> "none"]]
    /\ jMsg = [type |-> "none"]

\* The keys of a search: open, type, leave the input, walk the results,
\* commit, cancel.
SearchKeys == {"/", "esc", "enter", "backspace", "a", "B", " ", "j"}

----------------------------------------------------------------------------
(* Search within the log buffer (src/unnamed/part_005, performSearch).     *)
(* Text is a sequence of characters; LineFeed ends a line.                 *)

LineFeed == "\n"

\* strings.Index(text[from:], query) on 0-based offsets, relative to from:
\* the first offset at which query occurs, or -1.
IndexFrom(text, query, from) ==
    LET scan(i) == i + Len(query) <= Len(text)
                   /\ SubSeq(text, i + 1, i + Len(query)) = query
        hits == {i \in from..Len(text) : scan(i)}
    IN  IF hits = {} THEN -1
        ELSE (CHOOSE i \in hits : \A j \in hits : i <= j) - from

\* strings.IndexByte(text[index:], '\n'), relative to index.
IndexLineFeed(text, index) == IndexFrom(text, <<LineFeed>>, index)

\* byteOffsetForLine searching every line from the start of the text, as a
\* search that forgot the viewport would.
byteOffsetForLineFromStart(text, line) == 0

\* The loop of byteOffsetForLine.
RECURSIVE offsetLoop(_, _, _, _)
offsetLoop(text, line, index, count) ==
    IF index < Len(text) /\ count < line
    THEN LET next == IndexLineFeed(text, index)
         IN  IF next < 0 THEN Len(text)
             ELSE offsetLoop(text, line, index + next + 1, count + 1)
    ELSE index

byteOffsetForLine(text, line) ==
    IF line <= 0 THEN 0 ELSE offsetLoop(text, line, 0, 0)

\* strings.Count(text[:idx], "\n")
CountLineFeeds(text, idx) == Cardinality({j \in 1..idx : text[j] = LineFeed})

\* viewport.SetYOffset: the offset is kept within the pages of the content,
\* which has one line more than it has line feeds.
maxYOffset(text, height) ==
    LET lines == CountLineFeeds(text, Len(text)) + 1
    IN  IF lines > height THEN lines - height ELSE 0

SetYOffset(text, height, n) ==
    IF n < 0 THEN 0
    ELSE IF n > maxYOffset(text, height) THEN maxYOffset(text, height)
    ELSE n

\* performSearch on a view: the buffer, the height of the pane, the offset
\* of the viewport, autoScroll and searchActive.
performSearch(view, query) ==
    LET text == view.content
        startIdx == byteOffsetForLine(text, view.YOffset)
        first == IndexFrom(text, query, startIdx)
        idx == IF first = -1 /\ startIdx > 0 THEN IndexFrom(text, query, 0)
               ELSE IF first >= 0 THEN first + startIdx
               ELSE first
    IN  IF Len(text) = 0 THEN [view EXCEPT !.searchMessage = "Log is empty"]
        ELSE IF idx < 0 THEN [view EXCEPT !.searchMessage = "No match"]
        ELSE [view EXCEPT !.YOffset = SetYOffset(text, view.height, CountLineFeeds(text, idx)),
                          !.autoScroll = FALSE,
                          !.searchActive = FALSE,
                          !.searchMessage = "Match"]

MaxLogLen == 4

MaxHeight == 2

VARIABLES
    fView,           \* the view searched: buffer, pane height, offset, flags
    fQuery,          \* the trimmed query of the search input
    fResult          \* the view after performSearch (Nil before the search)

findVars == <<fView, fQuery, fResult>>

LogChars == {"a", "A", LineFeed}

LogTexts == UNION {[1..n -> LogChars] : n \in 0..MaxLogLen}

LogQueries == {<<"a">>, <<"A">>, <<"a", "A">>}

\* The views a search can start from: the search input is open, the offset
\* is one the viewport allows.
LogViews ==
    UNION { { [content |-> text, height |-> h, YOffset |-> y, autoScroll |-> auto,
               searchActive |-> TRUE, searchMessage |-> ""] :
                  y \in 0..maxYOffset(text, h), auto \in BOOLEAN } :
            text \in LogTexts, h \in 1..MaxHeight }

\* handleSearchKey, case tea.KeyEnter with a non-empty trimmed query.
SearchEnter ==
    \E view \in LogViews : \E query \in LogQueries :
        /\ fResult = Nil
        /\ fView' = view
        /\ fQuery' = query
        /\ fResult' = Some(performSearch(view, query))

FindInit ==
    /\ fView = Nil
    /\ fQuery = <<>>
    /\ fResult = Nil

vars == <<detailsVars, consoleVars, jobsVars, scrubVars, treeVars, findVars>>

Init == DetailsInit /\ ConsoleInit /\ JobsInit /\ ScrubInit /\ TreeInit /\ FindInit

\* A step of one component leaves the others alone.
OnlyDetails == UNCHANGED <<consoleVars, jobsVars, scrubVars, treeVars, findVars>>

OnlyConsole == UNCHANGED <<detailsVars, jobsVars, scrubVars, treeVars, findVars>>

OnlyJobs == UNCHANGED <<detailsVars, consoleVars, scrubVars, treeVars, findVars>>

DetailsNext ==
    \/ OnlyDetails /\ (\E job \in JobValues : JobSelected(job))
    \/ OnlyDetails /\ JobSelectionCleared
    \/ OnlyDetails /\ JobDetailsResult
    \/ OnlyDetails /\ ActionResult
    \/ OnlyDetails /\ ActionMessageCleared
    \/ OnlyDetails /\ DetailsKey
    \/ OnlyDetails /\ DetailsRefreshRequested
    \/ OnlyDetails /\ ParameterSubmission
    \/ OnlyDetails /\ ParameterCancelled

SpecDetails == Init /\ [][DetailsNext]_vars

ConsoleNext ==
    \/ OnlyConsole /\ (\E req \in ConsoleRequests : openConsoleView(req))
    \/ OnlyConsole /\ LogsChunk(LogChunks, MaxIdleExplored)
    \/ OnlyConsole /\ PollLogs
    \/ OnlyConsole /\ ConsoleRefreshRequested
    \/ OnlyConsole /\ ConsoleEscKey
    \/ OnlyConsole /\ handleConsoleExit

SpecConsole == Init /\ [][ConsoleNext]_vars

\* The application following the target of the console: every log request,
\* every answer of a resolution, and a log that stays silent.
TargetNext ==
    \/ OnlyConsole /\ (\E req \in LogRequests : openConsoleView(req))
    \/ OnlyConsole /\ handleConsoleTargetResolved
    \/ OnlyConsole /\ LogsChunk({<<>>}, MaxIdleExplored)
    \/ OnlyConsole /\ PollLogs
    \/ OnlyConsole /\ ConsoleEscKey
    \/ OnlyConsole /\ handleConsoleExit

SpecTarget == Init /\ [][TargetNext]_vars

\* The application following the target of the console while answers of
\* resolutions arrive: two jobs, builds named with or without a URL.
ResolveRequests ==
    { [Job |-> "a", Build |-> Some([Number |-> 1, URL |-> 1]), JobHasURL |-> TRUE],
      [Job |-> "a", Build |-> Some([Number |-> 2, URL |-> 0]), JobHasURL |-> FALSE],
      [Job |-> "b", Build |-> Nil, JobHasURL |-> TRUE] }

ResolveNext ==
    \/ OnlyConsole /\ (\E req \in ResolveRequests : openConsoleView(req))
    \/ OnlyConsole /\ handleConsoleTargetResolved
    \/ OnlyConsole /\ ConsoleEscKey
    \/ OnlyConsole /\ handleConsoleExit

SpecResolve == Init /\ [][ResolveNext]_vars

IdleNext ==
    \/ OnlyConsole /\ (session = 0 /\ openConsoleView(IdleRequest))
    \/ OnlyConsole /\ LogsChunk({<<>>}, maxIdlePollIterations + MaxIdleOvershoot)
    \/ OnlyConsole /\ PollLogs
    \/ OnlyConsole /\ ConsoleRefreshRequested
    \/ OnlyConsole /\ ConsoleEscKey
    \/ OnlyConsole /\ handleConsoleExit

SpecIdle == Init /\ [][IdleNext]_vars

JobsNext ==
    \/ OnlyJobs /\ JobsKey(JobKeys)
    \/ OnlyJobs /\ SearchQueued
    \/ OnlyJobs /\ JobsFetched(Listings)
    \/ OnlyJobs /\ JobsError
    \/ OnlyJobs /\ JobsRefreshRequested

SpecJobs == Init /\ [][JobsNext]_vars

\* Searching in the tree of one listing.
SearchNext ==
    \/ OnlyJobs /\ JobsKey(SearchKeys)
    \/ OnlyJobs /\ SearchQueued
    \/ OnlyJobs /\ JobsFetched({ListingFull})

SpecSearch == Init /\ [][SearchNext]_vars

\* The console of one build with its log arriving while the user scrolls,
\* toggles auto-scroll and refreshes.
ScrollKeys == {"s", "j", "k", "pgup"}

ScrollNext ==
    \/ OnlyConsole /\ openConsoleView(IdleRequest)
    \/ OnlyConsole /\ LogsChunkWithin(LogChunks, MaxIdleExplored, MaxBufferLen)
    \/ OnlyConsole /\ PollLogs
    \/ OnlyConsole /\ ConsoleRefreshRequested
    \/ OnlyConsole /\ ConsoleKey(ScrollKeys)

SpecScroll == Init /\ [][ScrollNext]_vars

\* The console opened again and again, on a build and on a job without one,
\* while answers and poll timers of earlier opens are still on their way.
OpenNext ==
    \/ OnlyConsole /\ (\E req \in ConsoleRequests : openConsoleView(req))
    \/ OnlyConsole /\ LogsChunk(LogChunks, MaxIdleExplored)
    \/ OnlyConsole /\ PollLogs

SpecOpen == Init /\ [][OpenNext]_vars

OnlyScrub == UNCHANGED <<detailsVars, consoleVars, jobsVars, treeVars, findVars>>

ScrubNext ==
    \/ OnlyScrub /\ ScrubChunk

\* The console filling its buffer: the targets are opened with a known build,
\* and the server answers with text, concealed text or nothing.
BufferNext ==
    \/ OnlyConsole /\ (\E req \in {IdleRequest} : openConsoleView(req))
    \/ OnlyConsole /\ LogsChunkWithin(LogChunks, MaxIdleExplored, MaxBufferLen)
    \/ OnlyConsole /\ PollLogs
    \/ OnlyConsole /\ ConsoleRefreshRequested

SpecBuffer == Init /\ [][BufferNext]_vars

SpecScrub == Init /\ [][ScrubNext]_vars

\* The user walking the tree and folding folders while the listing is
\* refreshed.
NavKeys == {"h", "l", " ", "j", "k"}

NavNext ==
    \/ OnlyJobs /\ JobsKey(NavKeys)
    \/ OnlyJobs /\ JobsFetched(Listings)
    \/ OnlyJobs /\ JobsRefreshRequested

SpecNav == Init /\ [][NavNext]_vars

\* A search while the listing is refreshed: the global key "r" reaches the
\* panel whatever its mode (src/unnamed/part_004:193-223).
CommitKeys == {"/", "B", "enter", "esc", "j", "l"}

CommitNext ==
    \/ OnlyJobs /\ JobsKey(CommitKeys)
    \/ OnlyJobs /\ SearchQueued
    \/ OnlyJobs /\ JobsFetched({ListingFull})
    \/ OnlyJobs /\ JobsRefreshRequested

SpecCommit == Init /\ [][CommitNext]_vars

\* The jobs panel with searches, foldings, refreshes and failed refreshes.
CatalogKeys == {"/", "a", "B", " "}

CatalogNext ==
    \/ OnlyJobs /\ JobsKey(CatalogKeys)
    \/ OnlyJobs /\ SearchQueued
    \/ OnlyJobs /\ JobsFetched(Listings)
    \/ OnlyJobs /\ JobsError
    \/ OnlyJobs /\ JobsRefreshRequested

SpecCatalog == Init /\ [][CatalogNext]_vars

OnlyTree == UNCHANGED <<detailsVars, consoleVars, jobsVars, scrubVars, findVars>>

TreeNext ==
    \/ OnlyTree /\ TreeBuild
    \/ OnlyTree /\ TreeToggle
    \/ OnlyTree /\ TreeExpand
    \/ OnlyTree /\ TreeCollapse
    \/ OnlyTree /\ TreeExpandAll
    \/ OnlyTree /\ TreeCollapseAll

SpecTree == Init /\ [][TreeNext]_vars

OnlyFind == UNCHANGED <<detailsVars, consoleVars, jobsVars, scrubVars, treeVars>>

\* Searches of the log buffer, each from a view of its own.
FindNext ==
    \/ OnlyFind /\ SearchEnter

SpecFind == Init /\ [][FindNext]_vars

\* The user working in one panel from the start: the details panel with a
\* job whose build is running, the console or the search of the jobs panel,
\* the other panels as constructed.
\* The scrub engine on single control sequences, complete and cut.
SequenceNext ==
    \/ OnlyScrub /\ ScrubSequence
    \/ OnlyScrub /\ ScrubPartial

SpecSequence == Init /\ [][SequenceNext]_vars

\* The scrub engine on chunks of arbitrary bytes, whole and cut in two.
BytesNext ==
    \/ OnlyScrub /\ ScrubRaw
    \/ OnlyScrub /\ ScrubSplit

SpecBytes == Init /\ [][BytesNext]_vars

DetailsAlone == ConsoleInit /\ JobsInit /\ OnlyDetails

ConsoleAlone == DetailsInit /\ JobsInit /\ OnlyConsole

JobsAlone == DetailsInit /\ ConsoleInit /\ OnlyJobs

TicketsNext ==
    \/ DetailsAlone /\ JobSelected([name |-> "a", building |-> TRUE])
    \/ DetailsAlone /\ JobDetailsResult
    \/ DetailsAlone /\ ActionResult
    \/ DetailsAlone /\ ActionMessageCleared
    \/ DetailsAlone /\ DetailsKey
    \/ DetailsAlone /\ DetailsRefreshRequested
    \/ ConsoleAlone /\ openConsoleView(IdleRequest)
    \/ ConsoleAlone /\ LogsChunk({<<>>}, MaxIdleExplored)
    \/ ConsoleAlone /\ PollLogs
    \/ JobsAlone /\ JobsKey({"/", "a", "backspace", "esc"})
    \/ JobsAlone /\ SearchQueued
    \/ JobsAlone /\ JobsFetched({ListingSmall})

SpecTickets == Init /\ [][TicketsNext]_vars

----------------------------------------------------------------------------
(* Claims about the details panel, checked under SpecDetails.              *)

\* C1: a job-detail response whose ticket differs from the panel's request
\* ticket at the moment it is processed changes no field of the details
\* panel, whatever selections, refreshes and other completions came before.
C1_StaleDetailsDropped ==
    [][(dMsg'.type = "jobDetailsResultMsg" /\ dMsg'.ticket # requestID)
           => UNCHANGED panelVars]_vars

\* C1 witness: the response of an earlier request has just been processed
\* while the newest request is still waiting for its own response.
C1_Witness ==
    /\ dMsg.type = "jobDetailsResultMsg"
    /\ dMsg.ticket < requestID
    /\ loading
    /\ \E f \in detailFetches : f.ticket = requestID

\* C3 (as claimed): a build-now / build-with-parameters / abort action is
\* completed (marker cleared, feedback shown) only by the actionResultMsg of
\* that same action, and an actionResultMsg is applied only to the action
\* that issued it: no job-detail ticket makes a foreign message match.
C3_ActionCompletedOnlyByOwnResult ==
    [][/\ (/\ inFlight # Nil
           /\ inFlight[1].kind \in ExecKinds
           /\ inFlight' = Nil
           /\ feedback' # Nil)
          => (/\ dMsg'.type = "actionResultMsg"
              /\ dMsg'.ticket = inFlight[1].ticket
              /\ dMsg'.kind = inFlight[1].kind)
       /\ (/\ dMsg'.type = "actionResultMsg"
           /\ (\/ inFlight = Nil
               \/ inFlight[1].ticket # dMsg'.ticket
               \/ inFlight[1].kind # dMsg'.kind))
          => UNCHANGED panelVars]_vars

\* C7 (as claimed): once the panel holds no selected job, no builds and no
\* loading state (the state a job-selection-cleared event leaves), it stays
\* so under every message but a job-selected event.
C7_ClearedStaysCleared ==
    [][(/\ selectedJob = Nil
        /\ ~loading
        /\ recentBuilds = <<>>
        /\ dMsg'.type # "JobSelectedMsg")
           => (selectedJob' = Nil /\ ~loading' /\ recentBuilds' = <<>>)]_vars

\* C8 (as claimed): while a build-now / build-with-parameters / abort action
\* is in flight, a job-detail fetch for the same job, started by a refresh or
\* by a re-emitted selection of that job, leaves the in-flight marker and its
\* ticket unchanged.
C8_FetchKeepsAction ==
    [][(/\ inFlight # Nil
        /\ inFlight[1].kind \in ExecKinds
        /\ selectedJob # Nil
        /\ \/ dMsg'.type = "JobSelectedMsg" /\ dMsg'.job = selectedJob[1].name
           \/ dMsg'.type = "RefreshRequestedMsg"
           \/ dMsg'.type = "KeyMsg" /\ dMsg'.key = "r")
           => inFlight' = inFlight]_vars

----------------------------------------------------------------------------
(* Claims about the log console, checked under SpecConsole, SpecIdle and   *)
(* SpecTarget.                                                             *)

NoFetchStarted == logFetches' \subseteq logFetches

NoTimerStarted == \A s \in Sessions : pollTimers'[s] <= pollTimers[s]

\* C2: a log chunk or a poll-timer message whose session differs from the
\* console's current session is discarded: the log buffer, next offset, idle
\* counter, conceal state, error and polling flags stay as they are, and no
\* fetch and no timer is started.
C2_StaleSessionDiscarded ==
    [][(cMsg'.type \in {"logsChunkMsg", "pollLogsMsg"} /\ cMsg'.session # session)
           => (UNCHANGED consoleModelVars /\ NoFetchStarted /\ NoTimerStarted)]_vars

\* C2 witness: the chunk of an earlier session has just been processed while
\* the current session is polling with its own fetch in flight.
C2_Witness ==
    /\ cMsg.type = "logsChunkMsg"
    /\ cMsg.session < session
    /\ shouldPoll
    /\ \E f \in logFetches : f.session = session

\* C4: the 150th consecutive zero-progress result with more-data false stops
\* the polling (no timer, no fetch), and from then on nothing but a refresh or
\* an open issues a fetch or schedules a timer.
C4_IdleCapStopsPolling ==
    [][/\ (/\ cMsg'.type = "logsChunkMsg"
           /\ cMsg'.session = session
           /\ ~cMsg'.err
           /\ ~cMsg'.more
           /\ content' = content
           /\ nextOffset' <= nextOffset
           /\ idlePolls = maxIdlePollIterations - 1)
          => (/\ idlePolls' = maxIdlePollIterations
              /\ ~shouldPoll'
              /\ NoFetchStarted
              /\ NoTimerStarted)
       /\ (/\ idlePolls >= maxIdlePollIterations
           /\ ~shouldPoll
           /\ ~fetchInFlight
           /\ cMsg'.type \notin {"RefreshRequestedMsg", "ActionRequestMsg"})
          => (/\ ~shouldPoll'
              /\ NoFetchStarted
              /\ NoTimerStarted)]_vars

\* C4 witness: the 150th silent answer has been applied and the console is at
\* rest: not polling, no timer pending, no fetch in flight.
C4_Witness ==
    /\ cMsg.type = "logsChunkMsg"
    /\ ~cMsg.more
    /\ idlePolls = maxIdlePollIterations
    /\ ~shouldPoll
    /\ pollTimers[session] = 0
    /\ logFetches = {}

C6_NoWorkWhileDeactivated ==
    [][(/\ bottomActive = "details"
        /\ session > 0
        /\ cMsg'.type \notin {"ActionRequestMsg", "RefreshRequestedMsg"})
           => (NoFetchStarted /\ NoTimerStarted)]_vars

\* C9: the answer to a resolution that is not the most recently started one
\* changes neither the tracked target nor the target of the console.
C9_OnlyLatestResolutionApplied ==
    [][(cMsg'.type = "consoleTargetResolvedMsg" /\ cMsg'.id # resolveSeq)
           => UNCHANGED <<async, session, jobFullName, buildNumber, buildURL>>]_vars

----------------------------------------------------------------------------
(* Claims about the search of the jobs panel, checked under SpecSearch.    *)

\* C10: a debounced search message whose ticket is not the current search
\* ticket changes nothing in the jobs panel; one that is applied carries the
\* trimmed value the search input holds at that moment, and that query becomes
\* the applied one.
C10_StaleSearchDiscarded ==
    [][jMsg'.type = "searchQueuedMsg"
           => IF jMsg'.Ticket # jobs.searchTicket
              THEN jobs' = jobs
              ELSE /\ jMsg'.Query = TrimSpace(jobs.value)
                   /\ jobs'.searchQuery = jMsg'.Query
                   /\ jobs'.searchResults = runFuzzySearch(jMsg'.Query, jobs.searchCatalog)]_vars

\* C10 witness: the message of an earlier keystroke has just been discarded
\* in search mode, its query was not applied, and the message of the latest
\* keystroke is still on its way.
C10_Witness ==
    /\ jMsg.type = "searchQueuedMsg"
    /\ jMsg.Ticket < jobs.searchTicket
    /\ jobs.searchMode
    /\ jobs.searchQuery # jMsg.Query
    /\ \E msg \in searchMsgs : msg.Ticket = jobs.searchTicket

----------------------------------------------------------------------------
(* The scrub engine across chunks.                                         *)

\* What the pieces of a chunk mean: the conceal state after them.
RECURSIVE ConcealAfter(_, _)
ConcealAfter(tokens, conceal) ==
    IF tokens = <<>> THEN conceal
    ELSE ConcealAfter(Tail(tokens),
                      IF Head(tokens).kind = "on" THEN TRUE
                      ELSE IF Head(tokens).kind = "off" THEN FALSE
                      ELSE conceal)

\* The text bytes of the pieces at which conceal is inactive.
RECURSIVE VisibleText(_, _)
VisibleText(tokens, conceal) ==
    IF tokens = <<>> THEN <<>>
    ELSE (IF Head(tokens).kind = "text" /\ ~conceal THEN Head(tokens).bytes ELSE <<>>)
         \o VisibleText(Tail(tokens), ConcealAfter(<<Head(tokens)>>, conceal))

\* C11: with the conceal state threaded from call to call, the text returned
\* for a chunk is exactly its ordinary bytes at which conceal is inactive
\* (conceal starts as the previous call left it, is set by a conceal-on
\* sequence and cleared by a reset sequence), and the state returned is the
\* conceal state at the end of the chunk.
C11_OrdinaryBytesEmittedIffNotConcealed ==
    /\ sText = VisibleText(sTokens, sBefore)
    /\ sActive = ConcealAfter(sTokens, sBefore)

\* A chunk scrubbed with conceal left active by an earlier chunk: its first
\* text byte is hidden, the text after its reset sequence is emitted.
C11_Witness ==
    /\ sBefore
    /\ Len(sTokens) = 3
    /\ sTokens[1].kind = "text"
    /\ sTokens[2].kind = "off"
    /\ sTokens[3].kind = "text"
    /\ sText = sTokens[3].bytes
    /\ ~sActive

NoEscapeBytes(tokens) == \A i \in 1..Len(ChunkBytes(tokens)) : ChunkBytes(tokens)[i] # esc

IsNotCarriageReturn(b) == b # CarriageReturn

\* C12 as stated: a chunk with no escape bytes, scrubbed with conceal
\* inactive, comes back unchanged and conceal stays inactive.
C12_PlainTextUnchanged ==
    (~sBefore /\ NoEscapeBytes(sTokens))
        => (sText = ChunkBytes(sTokens) /\ ~sActive)

\* C12 amended: a chunk with no escape bytes, scrubbed with conceal inactive,
\* comes back without its carriage returns and otherwise unchanged, and
\* conceal stays inactive.
C12_PlainTextUnchangedButCarriageReturns ==
    (~sBefore /\ NoEscapeBytes(sTokens))
        => (sText = SelectSeq(ChunkBytes(sTokens), IsNotCarriageReturn) /\ ~sActive)

\* A plain chunk "a", carriage return, "a" scrubbed with conceal inactive.
C12_Witness ==
    /\ ~sBefore
    /\ NoEscapeBytes(sTokens)
    /\ Len(sTokens) = 3
    /\ sTokens[1].kind = "text"
    /\ sTokens[2].kind = "cr"
    /\ sTokens[3].kind = "text"
    /\ sText = sTokens[1].bytes \o sTokens[3].bytes

----------------------------------------------------------------------------
(* Claims about errors and the log buffer of the console.                  *)

\* C13: a fetch error answered for the current session records the error and
\* stops polling, and while the error stands no fetch is issued and no poll
\* timer is scheduled, whatever message arrives, until the user refreshes or
\* a target is opened.
C13_ErrorStopsPolling ==
    [][/\ (cMsg'.type = "logsChunkMsg" /\ cMsg'.session = session /\ cMsg'.err)
              => (consoleErr' /\ ~shouldPoll' /\ NoFetchStarted /\ NoTimerStarted)
       /\ (consoleErr /\ cMsg'.type \notin {"RefreshRequestedMsg", "ActionRequestMsg",
                                            "consoleTargetResolvedMsg"})
              => (consoleErr' /\ ~shouldPoll' /\ NoFetchStarted /\ NoTimerStarted)]_vars

\* A poll timer of the current session has fired after the error was
\* recorded, and no fetch is in flight.
C13_Witness ==
    /\ consoleErr
    /\ cMsg.type = "pollLogsMsg"
    /\ cMsg.session = session
    /\ ~fetchInFlight
    /\ \A f \in logFetches : f.session # session

IsPrefix(a, b) == Len(a) <= Len(b) /\ SubSeq(b, 1, Len(a)) = a

\* C14: in every step the log buffer either keeps its content as a prefix of
\* the new content, within the same session, or a target is opened (the
\* session advances) and the buffer is emptied; so between two opens every
\* earlier content is a prefix of every later one.
C14_BufferAppendOnly ==
    [][\/ session' = session /\ IsPrefix(content, content')
       \/ /\ session' = session + 1
          /\ cMsg'.type \in {"ActionRequestMsg", "consoleTargetResolvedMsg"}
          /\ content' = <<>>]_vars

\* Two chunks with text have been appended to the buffer of one session.
C14_Witness ==
    /\ Len(content) >= 2
    /\ cMsg.type = "logsChunkMsg"
    /\ cMsg.session = session
    /\ ~cMsg.err

----------------------------------------------------------------------------
(* Claims about the generation counters.                                   *)

\* The tickets held by the panel state and by the operations in flight, per
\* counter.
HeldRequestTickets == {f.ticket : f \in detailFetches}

\* The feedback of a refresh carries the request ticket, so the timers count
\* for the action counter only when an action set them.
HeldActionTickets ==
    {c.ticket : c \in actionCmds} \cup {t.ticket : t \in {u \in clearTimers : u.src = "action"}}

HeldSearchTickets == {q.Ticket : q \in searchMsgs}

HeldSessions == {f.session : f \in logFetches} \cup {s \in Sessions : pollTimers[s] > 0}

TicketsWithinCounters ==
    /\ \A t \in HeldRequestTickets : t <= requestID
    /\ \A t \in HeldActionTickets : t <= actionTicket
    /\ \A t \in HeldSearchTickets : t <= jobs.searchTicket
    /\ \A t \in HeldSessions : t <= session

\* C15: the request ticket, the action ticket, the search ticket and the
\* console session never decrease, no operation holds a value above its
\* counter, and a newly issued value (a detail fetch, an action command, a
\* debounced search, an opened target) is strictly greater than the counter
\* before the step, hence than every value issued before.
C15_CountersStrictlyIncrease ==
    [][/\ requestID' >= requestID
       /\ actionTicket' >= actionTicket
       /\ jobs'.searchTicket >= jobs.searchTicket
       /\ session' >= session
       /\ TicketsWithinCounters'
       /\ \A f \in detailFetches' \ detailFetches : f.ticket > requestID
       /\ \A c \in actionCmds' \ actionCmds : c.ticket > actionTicket
       /\ \A q \in searchMsgs' \ searchMsgs : q.Ticket > jobs.searchTicket
       /\ cMsg'.type = "ActionRequestMsg" => session' > session]_vars

\* A second debounced search is waiting next to an earlier one, with a
\* greater ticket.
C15_Witness ==
    \E q1, q2 \in searchMsgs :
        /\ q1.Ticket < q2.Ticket
        /\ q2.Ticket = jobs.searchTicket

----------------------------------------------------------------------------
(* Claims about the job tree, checked under SpecTree.                      *)

\* The number of jobs of a listing, nested jobs included.
RECURSIVE CountJobs(_)
CountJobs(list) ==
    IF list = <<>> THEN 0
    ELSE 1 + CountJobs(Head(list).Jobs) + CountJobs(Tail(list))

\* C16: the tree built from a listing of N jobs (nested ones included, full
\* paths distinct), flattened with every folder expanded, has exactly N
\* nodes with pairwise distinct full paths, none of them the synthetic root
\* (level -1, empty name).
C16_BuildFlattenRoundTrip ==
    tOp.op = "expandAll" =>
        LET flat == flattenVisibleNodes(tNodes, tExpanded)
        IN  /\ Len(flat) = CountJobs(tListing)
            /\ \A i, j \in 1..Len(flat) : flat[i].FullName = flat[j].FullName => i = j
            /\ \A i \in 1..Len(flat) : flat[i].Level >= 0 /\ flat[i].FullName # ""

\* Every folder of a listing with a folder inside a folder has been expanded.
C16_Witness ==
    /\ tOp.op = "expandAll"
    /\ CountJobs(tListing) >= 5
    /\ \E i \in 1..Len(tNodes) : tNodes[i].Level = 2
    /\ Len(flattenVisibleNodes(tNodes, tExpanded)) = Len(tNodes)

\* C17: toggleExpand, expandNode and collapseNode leave the tree as it is but
\* for the expanded flag of their node, do nothing for a node that is not a
\* folder, toggle, set and clear the flag of a folder, and leave the visible
\* projection unchanged when they collapse a collapsed folder or expand an
\* expanded one.
C17_ExpandCollapseFrame ==
    [][tOp'.op \in {"toggleExpand", "expandNode", "collapseNode"} =>
          LET node == tOp'.node
              full == node[1].FullName
              same == flattenVisibleNodes(tNodes', tExpanded')
                          = flattenVisibleNodes(tNodes, tExpanded)
          IN  /\ tNodes' = tNodes
              /\ tListing' = tListing
              /\ (node = Nil \/ ~node[1].IsFolder) => tExpanded' = tExpanded
              /\ (node # Nil /\ node[1].IsFolder) =>
                     /\ tExpanded' \ {full} = tExpanded \ {full}
                     /\ tOp'.op = "toggleExpand" => (full \in tExpanded' <=> full \notin tExpanded)
                     /\ tOp'.op = "expandNode" => full \in tExpanded'
                     /\ tOp'.op = "collapseNode" => full \notin tExpanded'
                     /\ (tOp'.op = "collapseNode" /\ full \notin tExpanded) => same
                     /\ (tOp'.op = "expandNode" /\ full \in tExpanded) => same]_vars

\* An expanded folder with jobs has been expanded again while another folder
\* stays collapsed.
C17_Witness ==
    /\ tOp.op = "expandNode"
    /\ tOp.node # Nil
    /\ tOp.node[1].IsFolder
    /\ tOp.node[1].FullName \in tExpanded
    /\ Len(Children(tNodes, tOp.node[1].FullName)) > 0
    /\ \E f \in FolderNames(tNodes) : f \notin tExpanded

----------------------------------------------------------------------------
(* Claims about the cursor of the jobs panel.                              *)

\* The full paths of the ordinary visible projection.
VisibleNames(m) == {VisibleNodes(m)[i].node.FullName : i \in 1..Len(VisibleNodes(m))}

\* C18: after a step that changes the tree (a folder expanded, collapsed or
\* toggled, or the tree rebuilt from a new listing) with a node selected
\* before it, the cursor is on the node with the path selected before when
\* the new visible projection has it, and on the last index otherwise.
C18_CursorFollowsPath ==
    [][(/\ jobs.tree /\ jobs'.tree
        /\ ~isFiltering(jobs) /\ ~isFiltering(jobs')
        /\ currentSelectionFullName(jobs) # ""
        /\ (jobs'.expanded # jobs.expanded \/ jMsg'.type = "JobsFetchedMsg"))
           => IF currentSelectionFullName(jobs) \in VisibleNames(jobs')
              THEN currentSelectionFullName(jobs') = currentSelectionFullName(jobs)
              ELSE jobs'.index = Len(VisibleNodes(jobs')) - 1]_vars

\* The node under the cursor of the list the panel shows.
CursorNode(m) ==
    LET nodes == currentNodes(m)
        m1 == ensureSelection(m, nodes)
    IN  nodes[(IF m1.index < 0 \/ m1.index >= Len(nodes) THEN 0 ELSE m1.index) + 1].node

\* Enter reaches the list while a filter is applied and has results.
CommitsMatch ==
    /\ jMsg'.type = "KeyMsg"
    /\ jMsg'.key = "enter"
    /\ ~jobs.loading
    /\ jobs.searchMode
    /\ ~jobs.focused
    /\ isFiltering(jobs)
    /\ Len(currentNodes(jobs)) > 0

\* C19: committing a match leaves search mode with every ancestor folder of
\* the matched node expanded and the matched node in the ordinary visible
\* projection and under the cursor, whatever was processed while the search
\* was active.
C19_CommitRevealsMatch ==
    [][CommitsMatch =>
          LET full == CursorNode(jobs).FullName
          IN  /\ ~jobs'.searchMode
              /\ ~isFiltering(jobs')
              /\ \A f \in PathToNode(jobs'.nodes, CursorNode(jobs).Parent) : f \in jobs'.expanded
              /\ full \in VisibleNames(jobs')
              /\ currentSelectionFullName(jobs') = full]_vars

\* C20: Esc in search mode leaves search mode with no filter applied, so that
\* the ordinary projection of the tree is shown, and puts the cursor on the
\* node that was selected when search mode was entered.
C20_CancelRestoresSelection ==
    [][(/\ jMsg'.type = "KeyMsg"
        /\ jMsg'.key = "esc"
        /\ ~jobs.loading
        /\ jobs.searchMode
        /\ jobs.preSearchSelection # "")
           => (/\ ~jobs'.searchMode
               /\ ~isFiltering(jobs')
               /\ currentSelectionFullName(jobs') = jobs.preSearchSelection)]_vars

----------------------------------------------------------------------------
(* Claims about the search catalog, checked under SpecCatalog.             *)

\* The full paths of the nodes a search returned.
ResultPaths(m) == {m.searchResults[i].node.FullName : i \in 1..Len(m.searchResults)}

\* The full paths of nodes that hold the query as a subsequence, both in
\* lower case.
MatchingPaths(query, nodes) ==
    {nodes[i].FullName : i \in {j \in 1..Len(nodes) :
        IsSubsequence(ToLower(query), ToLower(PathChars(nodes[j].FullName)))}}

\* C21: a search that is applied with a non-empty query to a loaded tree
\* returns, once each, exactly the nodes of that tree whose lower-cased full
\* path holds the lower-cased query as a subsequence, whatever folders are
\* expanded; for the catalog a/b, a/c, x/y and the query a it returns a/b and
\* a/c and not x/y.
C21_SearchOverWholeCatalog ==
    [][(/\ jMsg'.type = "searchQueuedMsg"
        /\ jMsg'.Ticket = jobs.searchTicket
        /\ jMsg'.Query # <<>>
        /\ jobs.tree)
           => /\ ResultPaths(jobs') = MatchingPaths(jMsg'.Query, jobs.nodes)
              /\ Len(jobs'.searchResults) = Cardinality(ResultPaths(jobs'))
              /\ \A i \in 1..Len(jobs'.searchResults) : jobs'.searchResults[i].gen = jobs.gen
              /\ (jobs.nodes = buildTree(ListingFull) /\ jMsg'.Query = <<"a">>)
                     => /\ {"a/b", "a/c"} \subseteq ResultPaths(jobs')
                        /\ "x/y" \notin ResultPaths(jobs')]_vars

\* C21 witness: the query a has just been applied to the catalog a/b, a/c,
\* x/y with every folder collapsed, and the nested nodes a/b and a/c are
\* among the results.
C21_Witness ==
    /\ jMsg.type = "searchQueuedMsg"
    /\ jMsg.Ticket = jobs.searchTicket
    /\ jMsg.Query = <<"a">>
    /\ jobs.tree
    /\ jobs.nodes = buildTree(ListingFull)
    /\ jobs.expanded = {}
    /\ ResultPaths(jobs) = {"a", "a/b", "a/c"}

----------------------------------------------------------------------------
(* Claims about the resolution of the console target, under SpecResolve.   *)

\* The answer just processed succeeded for the tracked job and names a build
\* number or a URL other than the tracked one.
ResolvesElsewhere ==
    /\ cMsg'.type = "consoleTargetResolvedMsg"
    /\ ~cMsg'.Err
    /\ cMsg'.JobFullName # ""
    /\ cMsg'.JobFullName = async.jobFullName
    /\ \/ cMsg'.BuildNumber > 0 /\ cMsg'.BuildNumber # async.buildNumber
       \/ cMsg'.BuildURL # 0 /\ cMsg'.BuildURL # async.buildURL

\* The target an answer resolves to: what it names, and the tracked value
\* for what it does not name.
ResolvedNumber == IF cMsg'.BuildNumber > 0 THEN cMsg'.BuildNumber ELSE async.buildNumber
ResolvedURL == IF cMsg'.BuildURL # 0 THEN cMsg'.BuildURL ELSE async.buildURL

\* C22: an answer that succeeds for the tracked job and names another build
\* number or URL than the tracked one re-opens the console with the resolved
\* target (a new session on the tracked job, with the resolved number and
\* URL, which the tracker then holds); every other answer (failed, for
\* another job, or equal to the tracked target) changes neither the tracker
\* nor the console.
C22_ResolutionReopensOnlyOnChange ==
    [][cMsg'.type = "consoleTargetResolvedMsg"
           => IF ResolvesElsewhere
              THEN /\ session' = session + 1
                   /\ jobFullName' = async.jobFullName
                   /\ buildNumber' = ResolvedNumber
                   /\ buildURL' = ResolvedURL
                   /\ async' = [async EXCEPT !.buildNumber = ResolvedNumber,
                                             !.buildURL = ResolvedURL]
              ELSE UNCHANGED <<async, consoleModelVars, logFetches, pollTimers>>]_vars

\* C22 witness: the console was re-opened by an answer that names build 2
\* for the tracked job, after it had been opened on another build of it.
C22_Witness ==
    /\ cMsg.type = "consoleTargetResolvedMsg"
    /\ ~cMsg.Err
    /\ cMsg.JobFullName = async.jobFullName
    /\ cMsg.BuildNumber = 2
    /\ resolveSeq = 1
    /\ session = 2
    /\ buildNumber = 2
    /\ async.buildNumber = 2

----------------------------------------------------------------------------
(* Claims about the validation of an abort, checked under SpecDetails.     *)

\* C23 (as claimed): the abort key pressed while the selected job has no
\* running build (the panel idle, no prompt open, no action in flight) sends
\* no abort request and leaves a validation message on display.
C23_AbortWithoutBuildRejectedWithMessage ==
    [][(/\ dMsg'.type = "KeyMsg"
        /\ dMsg'.key = "a"
        /\ confirmation = Nil
        /\ ~loading
        /\ inFlight = Nil
        /\ selectedJob # Nil
        /\ ~isBuildRunning(selectedJob))
           => (/\ actionCmds' = actionCmds
               /\ feedback' # Nil)]_vars

----------------------------------------------------------------------------
(* Claims about the view of the console, checked under SpecScroll.         *)

\* C24 (as claimed): auto-scroll is on right after every target open and
\* every manual refresh and off right after every manual scroll key, and a
\* chunk applied while it is on leaves the view at the end of the buffer.
C24_AutoScrollOnOpenAndRefresh ==
    [][/\ cMsg'.type \in {"ActionRequestMsg", "RefreshRequestedMsg"} => autoScroll'
       /\ (cMsg'.type = "KeyMsg" /\ cMsg'.key \in {"j", "k", "pgup"}) => ~autoScroll'
       /\ (/\ cMsg'.type = "logsChunkMsg"
           /\ cMsg'.session = session
           /\ ~cMsg'.err
           /\ autoScroll') => atBottom']_vars

----------------------------------------------------------------------------
(* Claims about the polling of the console, checked under SpecBuffer.      *)

\* A successful answer of the current session has just been applied.
ChunkApplied ==
    /\ cMsg'.type = "logsChunkMsg"
    /\ cMsg'.session = session
    /\ ~cMsg'.err

\* C25: every successful chunk of the current session sets the idle counter
\* to 0 when it added scrubbed output to the buffer or returned an offset
\* beyond the previous one, and adds exactly 1 to it otherwise.
C25_IdleCounterTracksProgress ==
    [][ChunkApplied
           => idlePolls' = IF Len(content') > Len(content) \/ nextOffset' > nextOffset
                           THEN 0
                           ELSE idlePolls + 1]_vars

\* C25 witness: after a chunk with output, an empty answer at the same
\* offset with more-data false has left the counter at 1, polling still on.
C25_Witness ==
    /\ cMsg.type = "logsChunkMsg"
    /\ cMsg.session = session
    /\ ~cMsg.err
    /\ ~cMsg.more
    /\ hasContent
    /\ idlePolls = 1
    /\ shouldPoll

\* C26: a successful answer of the current session with more-data false
\* that leaves the idle counter below 150 keeps the console polling: one
\* more poll timer of the current session is pending; and such a timer,
\* firing while polling is on and no fetch is under way, issues a fetch of
\* the current session at the offset the last answer returned.
C26_PollingContinuesBelowCap ==
    [][/\ (ChunkApplied /\ ~cMsg'.more /\ idlePolls' < maxIdlePollIterations)
           => /\ shouldPoll'
              /\ pollTimers'[session] = pollTimers[session] + 1
       /\ (/\ cMsg'.type = "pollLogsMsg"
           /\ cMsg'.session = session
           /\ shouldPoll
           /\ ~fetchInFlight)
           => /\ fetchInFlight'
              /\ \E f \in logFetches' \ logFetches :
                     /\ f.session = session
                     /\ f.offset = nextOffset
                     /\ logFetches' = logFetches \cup {f}]_vars

\* C26 witness: the timer scheduled by an answer with more-data false and
\* offset 1 has fired, and the fetch at offset 1 is on its way.
C26_Witness ==
    /\ cMsg.type = "pollLogsMsg"
    /\ cMsg.session = session
    /\ idlePolls > 0
    /\ nextOffset = 1
    /\ fetchInFlight
    /\ \E f \in logFetches : logFetches = {f} /\ f.session = session /\ f.offset = 1

\* C27: opening a target (from a log request or from a resolution) adds one
\* to the session, empties the buffer, sets conceal inactive, the next
\* offset and the idle counter to 0 and clears the error; for a valid target
\* it issues exactly one fetch, at offset 0 and tagged with the new session,
\* and for an invalid one it issues none.
C27_OpenResetsAndFetchesOnce ==
    [][(cMsg'.type = "ActionRequestMsg" \/ session' # session)
           => /\ session' = session + 1
              /\ content' = <<>>
              /\ ~hasContent'
              /\ ~concealActive'
              /\ nextOffset' = 0
              /\ idlePolls' = 0
              /\ ~consoleErr'
              /\ IF hasTarget'
                 THEN \E f \in logFetches' \ logFetches :
                          /\ f.session = session'
                          /\ f.offset = 0
                          /\ logFetches' = logFetches \cup {f}
                 ELSE logFetches' = logFetches
              /\ fetchInFlight' = hasTarget']_vars

\* C27 witness: the console has just been opened a second time, on a valid
\* target, while a poll timer of the first session is still pending: the
\* one fetch on its way is the new session's, at offset 0.
C27_Witness ==
    /\ cMsg.type = "ActionRequestMsg"
    /\ session = 2
    /\ hasTarget
    /\ content = <<>>
    /\ pollTimers[1] > 0
    /\ \E f \in logFetches : logFetches = {f} /\ f.session = 2 /\ f.offset = 0

----------------------------------------------------------------------------
(* Claims about single control sequences, checked under SpecSequence.      *)

\* What the parameters of a set-graphics sequence do to conceal, in order:
\* 8 sets it, 0, 00 and 28 clear it, any other parameter leaves it.
RECURSIVE GraphicsEffect(_, _)
GraphicsEffect(params, conceal) ==
    IF params = <<>> THEN conceal
    ELSE GraphicsEffect(Tail(params),
                        IF Head(params) = <<Digit8>> THEN TRUE
                        ELSE IF Head(params) \in {<<Digit0>>, <<Digit0, Digit0>>,
                                                  <<Digit2, Digit8>>} THEN FALSE
                        ELSE conceal)

\* Conceal after one complete control sequence.
ConcealAfterSequence(seq, conceal) ==
    IF seq.kind = "csi" /\ seq.final = LetterM
    THEN IF seq.params = <<>> THEN FALSE ELSE GraphicsEffect(seq.params, conceal)
    ELSE conceal

\* C28: a complete set-graphics sequence applies its parameters in order (8
\* sets conceal, 0, 00 and 28 clear it) and clears conceal when it has no
\* parameter; any other complete control sequence leaves conceal as it was;
\* the text returned holds the text before the sequence when conceal was
\* inactive before it and the text after it when conceal is inactive after
\* it, and no byte of the sequence.
C28_GraphicsSequenceSetsConceal ==
    (Len(sTokens) = 3 /\ sTokens[2].kind \in {"csi", "osc"})
        => LET after == ConcealAfterSequence(sTokens[2], sBefore)
           IN  /\ sActive = after
               /\ sText = (IF sBefore THEN <<>> ELSE sTokens[1].bytes)
                          \o (IF after THEN <<>> ELSE sTokens[3].bytes)

\* C28 witness: ESC[8;28m scrubbed with conceal inactive leaves it inactive
\* and both texts come back.
C28_Witness ==
    /\ Len(sTokens) = 3
    /\ sTokens[2].kind = "csi"
    /\ sTokens[2].final = LetterM
    /\ sTokens[2].params = << <<Digit8>>, <<Digit2, Digit8>> >>
    /\ ~sBefore
    /\ ~sActive
    /\ sText = <<97, 97>>

\* C29: a chunk that ends inside a control sequence comes back as the text
\* accumulated before that sequence, with no byte of the cut sequence, and
\* with the conceal state as it was just before the sequence.
C29_CutSequenceStopsScrubbing ==
    (sTokens # <<>> /\ sTokens[Len(sTokens)].kind = "partial")
        => LET lead == SubSeq(sTokens, 1, Len(sTokens) - 1)
           IN  /\ sText = VisibleText(lead, sBefore)
               /\ sActive = ConcealAfter(lead, sBefore)

\* C29 witness: text, conceal on, and a reset cut before its final byte:
\* the text comes back and conceal stays active.
C29_Witness ==
    /\ Len(sTokens) = 3
    /\ sTokens[1].kind = "text"
    /\ sTokens[2].kind = "on"
    /\ sTokens[3].bytes = <<esc, BracketOpen, Digit0>>
    /\ ~sBefore
    /\ sText = <<97>>
    /\ sActive

----------------------------------------------------------------------------
(* Claims about the visible projection of the tree, checked under SpecTree. *)

\* The full paths of a listing in depth-first pre-order: a job, then what is
\* below it, then the jobs after it.
RECURSIVE PreOrderPaths(_)
PreOrderPaths(list) ==
    IF list = <<>> THEN <<>>
    ELSE <<Head(list).FullName>> \o PreOrderPaths(Head(list).Jobs)
                                 \o PreOrderPaths(Tail(list))

\* The folders above the node with the full path full, the root left out.
RECURSIVE FoldersAbove(_, _)
FoldersAbove(nodes, full) ==
    LET parent == (CHOOSE i \in 1..Len(nodes) : nodes[i].FullName = full)
    IN  IF nodes[parent].Parent = "" THEN {}
        ELSE {nodes[parent].Parent} \cup FoldersAbove(nodes, nodes[parent].Parent)

\* C30: the visible projection lists, in the depth-first pre-order of the
\* listing and without the synthetic root, exactly the nodes all of whose
\* ancestors are expanded: the children of a folder are listed (after it, in
\* listing order) if and only if the folder and every folder above it is
\* expanded.
C30_VisibleIsPreOrderOfExpanded ==
    LET flat == flattenVisibleNodes(tNodes, tExpanded)
        shown(full) == FoldersAbove(tNodes, full) \subseteq tExpanded
    IN  /\ [i \in 1..Len(flat) |-> flat[i].FullName]
               = SelectSeq(PreOrderPaths(tListing), shown)
        /\ \A i \in 1..Len(flat) : flat[i].Level >= 0
        /\ \A i \in 1..Len(flat) :
               (flat[i].FullName \in tExpanded /\ Children(tNodes, flat[i].FullName) # <<>>)
                   => /\ i < Len(flat)
                      /\ flat[i + 1] = Children(tNodes, flat[i].FullName)[1]

\* C30 witness: an inner folder is expanded below a collapsed folder, whose
\* children are therefore not listed, next to an expanded folder with its
\* two jobs listed after it.
C30_Witness ==
    /\ "a/b" \in tExpanded
    /\ "a" \notin tExpanded
    /\ "x" \in tExpanded
    /\ [i \in 1..Len(flattenVisibleNodes(tNodes, tExpanded)) |->
            flattenVisibleNodes(tNodes, tExpanded)[i].FullName] = <<"a", "x", "x/b", "x/c">>
    /\ Len(tNodes) = 7

----------------------------------------------------------------------------
(* Claims about the search within the log buffer, checked under SpecFind.  *)

\* The offsets at which the query occurs in the text, letter case observed.
Occurrences(text, query) ==
    {i \in 0..Len(text) : /\ i + Len(query) <= Len(text)
                          /\ \A k \in 1..Len(query) : text[i + k] = query[k]}

\* The line that holds the character at an offset: the line feeds before it.
LineHolding(text, i) == Cardinality({j \in 1..i : text[j] = LineFeed})

Least(set) == CHOOSE i \in set : \A j \in set : i <= j

\* C31: the search takes the first occurrence of the query on or after the
\* line at the viewport top and, if there is none, the first occurrence in
\* the buffer; on a match the viewport is set to the line holding it (the
\* viewport keeps the offset within its last page, so that the line is
\* shown) and auto-scroll is off; when the query occurs nowhere the offset
\* and auto-scroll are as before.
C31_SearchFindsFirstFromViewportTop ==
    fResult # Nil =>
        LET view == fView
            result == fResult[1]
            all == Occurrences(view.content, fQuery)
            below == {i \in all : LineHolding(view.content, i) >= view.YOffset}
            line == LineHolding(view.content, Least(IF below # {} THEN below ELSE all))
            last == maxYOffset(view.content, view.height)
        IN  IF all = {}
            THEN result.YOffset = view.YOffset /\ result.autoScroll = view.autoScroll
            ELSE /\ result.YOffset = (IF line > last THEN last ELSE line)
                 /\ result.YOffset <= line
                 /\ line < result.YOffset + view.height
                 /\ ~result.autoScroll

\* C31 witness: with the viewport on the second line, which holds only "A",
\* the search for "a" wrapped to the first line and switched auto-scroll off.
C31_Witness ==
    /\ fResult # Nil
    /\ fView.content = <<"a", LineFeed, "A">>
    /\ fView.height = 1
    /\ fView.YOffset = 1
    /\ fView.autoScroll
    /\ fQuery = <<"a">>
    /\ fResult[1].YOffset = 0
    /\ ~fResult[1].autoScroll

----------------------------------------------------------------------------
(* Claims about the fetches and timers of one session, under SpecBuffer.   *)

\* The fetches on their way that carry the current session.
CurrentFetches == {f \in logFetches : f.session = session}

\* C32: at most one fetch of the current session is on its way, the console
\* knows of it (fetchInFlight), and it asks for the log at the next offset,
\* the one the last applied answer of the session returned (0 after the
\* open): the chunk it brings continues the buffer.
C32_OneFetchPerSession ==
    /\ Cardinality(CurrentFetches) <= 1
    /\ \A f \in CurrentFetches : fetchInFlight /\ f.offset = nextOffset

\* C32 witness: the second session fetches at offset 1, the offset its first
\* answer returned, while the fetch of the first session is still on its way.
C32_Witness ==
    /\ session = 2
    /\ nextOffset = 1
    /\ \E f \in CurrentFetches : f.offset = 1
    /\ \E f \in logFetches : f.session = 1

\* C33 (as claimed): at most one poll timer of the current session is
\* pending, also after a manual refresh issued while one is pending.
C33_OneTimerPerSession == pollTimers[session] <= 1


\* C34 (as claimed): at most one build-trigger or abort request started by
\* the details panel is outstanding, its result not yet delivered.
C34_OneActionOutstanding == Cardinality(actionCmds) <= 1


\* C35 (as claimed): while a filter is applied every displayed search result
\* is a node of the current tree, the one built from the latest listing.
C35_ResultsInCurrentTree ==
    isFiltering(jobs) =>
        \A i \in 1..Len(jobs.searchResults) : jobs.searchResults[i].gen = jobs.gen


\* C36: whenever a filter is applied (the applied query is not empty) the
\* panel is in search mode; a debounced search still on its way when search
\* mode is left is not applied any more.
C36_FilteringOnlyInSearchMode == isFiltering(jobs) => jobs.searchMode


\* A debounced search for a non-empty query was delivered after search mode
\* had been left, and was discarded.
C36_Witness ==
    /\ jMsg.type = "searchQueuedMsg"
    /\ jMsg.Query # <<>>
    /\ jMsg.Ticket < jobs.searchTicket
    /\ ~jobs.searchMode
    /\ ~isFiltering(jobs)


\* C37 (as claimed): a timer removes the feedback only if it was created for
\* that feedback; the timer of an earlier feedback never clears a later one,
\* whichever counters the two tickets came from.
C37_TimerClearsOwnFeedback ==
    [][(/\ dMsg'.type = "actionMessageClearedMsg"
        /\ feedback # Nil
        /\ feedback' = Nil)
           => feedback[1].src = dMsg'.src]_vars


-----------------------------------------------------------------------------
(* Claims about the scrub engine on arbitrary bytes, checked under         *)
(* SpecBytes.                                                               *)

\* C38: whatever the chunk and the incoming conceal state, the scrubbed text
\* holds no escape byte and no carriage return.
C38_OutputFreeOfEscapeAndCarriageReturn ==
    \A k \in 1..Len(sText) : sText[k] \notin {esc, CarriageReturn}

\* A chunk holding an escape byte and a carriage return was scrubbed to a
\* text that is not empty.
C38_Witness ==
    /\ Len(sTokens) = 1
    /\ \E k \in 1..Len(sTokens[1].bytes) : sTokens[1].bytes[k] = esc
    /\ \E k \in 1..Len(sTokens[1].bytes) : sTokens[1].bytes[k] = CarriageReturn
    /\ sText # <<>>


\* The OS-command sequence whose body starts at index end is terminated, by
\* BEL or by ESC \, within input.
RECURSIVE OSCClosed(_, _)
OSCClosed(input, end) ==
    IF end > Len(input) THEN FALSE
    ELSE IF input[end] = Bell THEN TRUE
    ELSE IF input[end] = esc /\ end + 1 <= Len(input) /\ input[end + 1] = Backslash THEN TRUE
    ELSE OSCClosed(input, end + 1)

\* Read from index i, input stops between an escape byte and the end of its
\* control sequence: after an escape byte, or inside a cursor/graphics or
\* OS-command sequence that has not been terminated.
RECURSIVE CutInside(_, _)
CutInside(input, i) ==
    IF i > Len(input) THEN FALSE
    ELSE IF input[i] # esc THEN CutInside(input, i + 1)
    ELSE IF i + 1 > Len(input) THEN TRUE
    ELSE IF input[i + 1] = BracketOpen
    THEN LET end == CSIEnd(input, i + 2)
         IN  IF end > Len(input) THEN TRUE ELSE CutInside(input, end + 1)
    ELSE IF input[i + 1] = BracketClose
    THEN IF OSCClosed(input, i + 2) THEN CutInside(input, OSCEnd(input, i + 2)) ELSE TRUE
    ELSE CutInside(input, i + 1)

\* C39: scrubbing the two parts of a chunk in order, the conceal state of the
\* first call passed to the second, gives the text and the final conceal
\* state of scrubbing the chunk in one call, for every cut that is not
\* between an escape byte and the end of its control sequence.
C39_SplitBetweenSequencesIsTransparent ==
    (Len(sTokens) = 2 /\ ~CutInside(sTokens[1].bytes, 1)) =>
        LET whole == StripANSISecrets(ChunkBytes(sTokens), sBefore)
        IN  /\ sText = whole.text
            /\ sActive = whole.conceal

\* The first part ends with a complete reset sequence that reveals the text of
\* the second part, which came in concealed.
C39_Witness ==
    /\ Len(sTokens) = 2
    /\ sTokens[1].bytes = <<esc, BracketOpen, LetterM>>
    /\ sTokens[2].bytes = <<97>>
    /\ sBefore
    /\ sText = <<97>>
    /\ ~sActive


-----------------------------------------------------------------------------
(* A claim about what committing a match leaves alone, checked under       *)
(* SpecSearch.                                                              *)

\* C40 (as claimed): committing a match changes the expanded flag of no node
\* but the proper ancestors of the matched node; the flag of the matched
\* node itself stays as it is.
C40_CommitExpandsOnlyProperAncestors ==
    [][CommitsMatch =>
          LET above == PathToNode(jobs.nodes, CursorNode(jobs).Parent)
          IN  /\ jobs'.nodes = jobs.nodes
              /\ \A i \in 1..Len(jobs.nodes) :
                    LET full == jobs.nodes[i].FullName
                    IN  full \notin above =>
                            (full \in jobs'.expanded <=> full \in jobs.expanded)]_vars

====
